---- MODULE Spec2Model ----
(***************************************************************************)
(* The chat relay of the repository, as a state machine.                   *)
(*                                                                         *)
(* Three request handlers are modelled:                                    *)
(*   "chat"  - POST of app/api/chat/route.ts (src/unnamed/part_001), the   *)
(*             relay that persists Chat and Message rows and streams raw   *)
(*             text with an X-Chat-Id header;                              *)
(*   "edge"  - the Deno.serve handler of                                   *)
(*             src/supabase/functions/chat-text/index.ts, the relay that   *)
(*             streams server-sent events and touches no store;            *)
(*   "proxy" - POST of src/app/src/app/api/chat-text/route.ts, which       *)
(*             forwards the request to the edge handler.                   *)
(*                                                                         *)
(* One action is one synchronous segment of a handler: the code between    *)
(* two awaits.  The store (supabase), the model provider (openai) and the  *)
(* calling client are the environment: each of their outcomes is chosen    *)
(* with \E.  The client-facing ReadableStream follows the WHATWG streams   *)
(* standard: enqueue and close throw once the stream is no longer          *)
(* readable, error is a no-op then.                                        *)
(***************************************************************************)
EXTENDS Integers, Sequences, FiniteSets, TLC

VARIABLES
    pc,             \* per turn: the await the handler is suspended at
    req,            \* per turn: the request received
    currentChatId,  \* per turn: local `currentChatId` of the chat route (0 = falsy)
    fullResponse,   \* per turn: local accumulator `fullResponse` of the chat route
    providerArgs,   \* per turn: the `messages` handed to openai.chat.completions.create
    upstream,       \* per turn: the chunks the provider stream has yielded so far
    upstreamEnd,    \* per turn: "none" | "open" | "done" | "thrown"
    stream,         \* per turn: the client-facing ReadableStream
    response,       \* per turn: the HTTP response the calling client gets
    trace,          \* per turn: the calls the handler has made, in order
    chats,          \* store: rows of table chats
    messages,       \* store: rows of table messages, in insertion order
    apiKey,         \* environment: OPENAI_API_KEY is set
    imageUrl,       \* per turn: local `imageUrl` of the image route (<<>> = undefined)
    ui,             \* the Chat UI page: its React state and its fetch in flight
    friendly,       \* lib/error-handler.ts: an error and its user-friendly message
    fetched,        \* lib/chat-service.ts: the last answer of fetchChatMessages
    reader,         \* handleTextStream: the read loop over the bytes of a body
    home            \* the Home page with chat history: its React state and calls

vars == <<pc, req, currentChatId, fullResponse, providerArgs, upstream,
          upstreamEnd, stream, response, trace, chats, messages, apiKey,
          imageUrl, ui, friendly, fetched, reader,
          home>>

\* What the chat, edge and proxy handlers never write.
\* What only the operations beside the handlers and the page write.
sideVars == <<fetched, reader, home>>

restVars == <<apiKey, imageUrl, ui, friendly, sideVars>>

turnVars == <<currentChatId, fullResponse, providerArgs, upstream,
              upstreamEnd, stream, response, trace>>

(***************************************************************************)
(* Bounds.                                                                 *)
(***************************************************************************)
MaxChunks == 3

Turns == {1, 2}

(***************************************************************************)
(* Values.                                                                 *)
(***************************************************************************)
\* delta.content of one upstream chunk: a string, modelled as a sequence of
\* characters; <<>> is '' (or undefined: both are falsy).
ChunkContents == {<<>>, <<"a">>, <<"b">>}

\* Strings are sequences of characters.
Greeting == <<"H", "e", "l", "l", "o", "!">>

Hello == <<"H", "e", "l", "l", "o">>

UserMsg == [role |-> "user", content |-> Hello]

PriorUser == [role |-> "user", content |-> <<"H", "i">>]

PriorAssistant == [role |-> "assistant", content |-> <<"H", "e", "y">>]

NoRequest ==
    [relay |-> "none", method |-> "POST", json |-> TRUE,
     messageKind |-> "absent", message |-> <<>>,
     historyKind |-> "absent", history |-> <<>>,
     messagesKind |-> "absent", messages |-> <<>>,
     promptKind |-> "absent", prompt |-> <<>>, chatId |-> 0]

\* Bodies sent to the chat route: { messages, chatId }.
ChatRequests ==
    { [NoRequest EXCEPT !.relay = "chat", !.json = FALSE],
      [NoRequest EXCEPT !.relay = "chat"],
      [NoRequest EXCEPT !.relay = "chat", !.messagesKind = "nonArray"],
      [NoRequest EXCEPT !.relay = "chat", !.messagesKind = "array"],
      [NoRequest EXCEPT !.relay = "chat", !.messagesKind = "array",
                        !.messages = <<UserMsg>>],
      [NoRequest EXCEPT !.relay = "chat", !.messagesKind = "array",
                        !.messages = <<UserMsg>>, !.chatId = 1],
      [NoRequest EXCEPT !.relay = "chat", !.messagesKind = "array",
                        !.messages = <<PriorUser, PriorAssistant, UserMsg>>,
                        !.chatId = 1] }

\* Bodies sent to the edge function or to the proxy route: { message, history }.
TextBodies ==
    { [NoRequest EXCEPT !.json = FALSE],
      NoRequest,
      [NoRequest EXCEPT !.messageKind = "nonString"],
      [NoRequest EXCEPT !.messageKind = "string"],
      [NoRequest EXCEPT !.messageKind = "string", !.message = Hello],
      [NoRequest EXCEPT !.messageKind = "string", !.message = Hello,
                        !.historyKind = "nonIterable"],
      [NoRequest EXCEPT !.messageKind = "string", !.message = Hello,
                        !.historyKind = "array",
                        !.history = <<PriorUser, PriorAssistant>>] }

EdgeRequests ==
    { [b EXCEPT !.relay = "edge"] : b \in TextBodies }
    \cup { [NoRequest EXCEPT !.relay = "edge", !.method = "OPTIONS"] }

ProxyRequests == { [b EXCEPT !.relay = "proxy"] : b \in TextBodies }

\* The prompt of an image request, and the URL the provider answers with.
Bicycle == <<"b", "i", "k", "e">>

Url == <<"u", "r", "l">>

\* Bodies sent to the image route: { prompt, chatId }.
ImageRequests ==
    { [b EXCEPT !.relay = "image"] :
        b \in { [NoRequest EXCEPT !.json = FALSE],
                [NoRequest EXCEPT !.chatId = 1],
                [NoRequest EXCEPT !.promptKind = "nonString", !.chatId = 1],
                [NoRequest EXCEPT !.promptKind = "string", !.chatId = 1],
                [NoRequest EXCEPT !.promptKind = "string", !.prompt = Bicycle],
                [NoRequest EXCEPT !.promptKind = "string", !.prompt = Bicycle,
                                  !.chatId = 1] } }

Requests == ChatRequests \cup EdgeRequests \cup ProxyRequests \cup ImageRequests

NoStream == [state |-> "none", cancelled |-> FALSE, events |-> <<>>]

NoResponse ==
    [status |-> 0, type |-> "none", chatIdHeader |-> 0, error |-> "",
     imageUrl |-> <<>>]

\* response.ok
Ok(r) == r.status \in 200..299

JsonResponse(status, error) ==
    [status |-> status, type |-> "json", chatIdHeader |-> 0, error |-> error,
     imageUrl |-> <<>>]

(***************************************************************************)
(* The client-facing ReadableStream and its controller.                    *)
(***************************************************************************)
\* new ReadableStream({ start }): readable, nothing enqueued.
NewReadable == [state |-> "readable", cancelled |-> FALSE, events |-> <<>>]

\* controller.enqueue and controller.close throw a TypeError unless the
\* stream is readable.
ControllerThrows(s) == s.state # "readable"

ControllerEnqueue(s, e) == [s EXCEPT !.events = Append(@, e)]

ControllerClose(s) == [s EXCEPT !.state = "closed"]

\* controller.error(e): the stream becomes errored; a no-op unless readable.
ControllerError(s) ==
    IF s.state = "readable" THEN [s EXCEPT !.state = "errored"] ELSE s

\* The consumer cancels the stream (the calling client went away).
StreamCancel(s) == [s EXCEPT !.state = "closed", !.cancelled = TRUE]

\* encoder.encode(content): one raw text chunk of the chat route.
RawEvent(content) == [frame |-> "raw", key |-> "content", content |-> content]

\* `data: ${JSON.stringify({ content })}\n\n` and the two terminal events of
\* the edge function.
ContentEvent(content) == [frame |-> "sse", key |-> "content", content |-> content]

DoneEvent == [frame |-> "sse", key |-> "done", content |-> <<>>]

ErrorEvent == [frame |-> "sse", key |-> "error", content |-> <<>>]

(***************************************************************************)
(* The store.                                                              *)
(***************************************************************************)
ChatIds == { c.id : c \in chats }

\* uuid_generate_v4(): an identifier no chat has.
NewChatId == Cardinality(chats) + 1

\* NOW() of the store: time moves on by one with every row written.
Now == Cardinality(chats) + Len(messages) + 1

\* A row of table chats as insert({}) creates it: created_at and updated_at
\* both default to NOW().
ChatRow(t) ==
    [id |-> NewChatId, created_at |-> Now, updated_at |-> Now, by |-> t]

\* A row of table messages; image_url is NULL (<<>>) unless given.
Row(t, chatId, content, role, type, url) ==
    [id |-> Len(messages) + 1, chat_id |-> chatId, content |-> content,
     role |-> role, message_type |-> type, image_url |-> url,
     created_at |-> Now, by |-> t]

MessageRow(t, chatId, content, role) == Row(t, chatId, content, role, "text", <<>>)

\* Mutant of InsertOutcomes: the column carries no foreign key.
InsertOutcomesUnreferenced(chatId) == {"ok", "error", "throw"}

\* messages.chat_id REFERENCES chats(id): an insert can succeed only for an
\* existing chat; the store may also return an error, or the call may throw.
InsertOutcomes(chatId) ==
    IF chatId \in ChatIds THEN {"ok", "error", "throw"} ELSE {"error", "throw"}

(***************************************************************************)
(* Helpers.                                                                *)
(***************************************************************************)
RECURSIVE SumLen(_, _)
SumLen(f, S) ==
    IF S = {} THEN 0
    ELSE LET x == CHOOSE y \in S : TRUE IN Len(f[x]) + SumLen(f, S \ {x})

\* The chunks the provider has yielded, over all turns.
ChunksYielded == SumLen(upstream, Turns)

Logged(t, call) == trace' = [trace EXCEPT ![t] = Append(@, call)]

Logged2(t, c1, c2) == trace' = [trace EXCEPT ![t] = Append(Append(@, c1), c2)]

\* Mutant of ClientResponse: the proxy hands every answer of the edge
\* function on as it is.
ClientResponseUnchecked(relay, r) == r

\* The response the calling client gets when the handler returns `r`: the
\* proxy route turns every non-2xx answer of the edge function into a 500 and
\* passes the body of a 2xx answer through.
ClientResponse(relay, r) ==
    IF relay = "proxy" /\ ~(r.status \in 200..299)
    THEN JsonResponse(500, "Internal server error")
    ELSE r

Respond(t, r) ==
    response' = [response EXCEPT ![t] = ClientResponse(req[t].relay, r)]

\* The handler returns a JSON error before any stream exists.
Reject(t, status, error) ==
    /\ Respond(t, JsonResponse(status, error))
    /\ pc' = [pc EXCEPT ![t] = "done"]

\* The store is empty, or holds the chat of an earlier conversation (rows
\* written by no turn of the model: by = 0).
PriorChat == [id |-> 1, created_at |-> 1, updated_at |-> 1, by |-> 0]

PriorRows ==
    << [id |-> 1, chat_id |-> 1, content |-> PriorUser.content,
        role |-> "user", message_type |-> "text", image_url |-> <<>>,
        created_at |-> 2, by |-> 0],
       [id |-> 2, chat_id |-> 1, content |-> PriorAssistant.content,
        role |-> "assistant", message_type |-> "text", image_url |-> <<>>,
        created_at |-> 3, by |-> 0] >>

\* fetchChatMessages has not been called.
NoFetch == [status |-> "none", chatId |-> 0, rows |-> <<>>, at |-> 0]

\* useState and useRef initial values of Home: no message, no current chat,
\* not loading, no AbortController; nothing sent, selected or created yet.
HomeInit ==
    [messages |-> <<>>, isLoading |-> FALSE, currentChatId |-> 0,
     abort |-> "null", turn |-> 0, phase |-> "idle", closure |-> 0,
     read |-> 0, selecting |-> 0, creating |-> FALSE, leaves |-> 0,
     left |-> "no"]

\* No body is being read byte by byte.
NoReader ==
    [sent |-> <<>>, wire |-> <<>>, pos |-> 0, pending |-> <<>>, buffer |-> <<>>,
     content |-> <<>>, split |-> FALSE, done |-> FALSE]

\* lib/error-handler.ts has not been called.
NoFriendly == [kind |-> "none", text |-> <<>>, result |-> "none"]

\* useState initial values of ChatDemoPage: the greeting, not loading.
UiInit ==
    [messages |-> << [id |-> 1, role |-> "assistant", content |-> Greeting,
                      type |-> "text", imageUrl |-> <<>>] >>,
     isLoading |-> FALSE, now |-> 2, turn |-> 0, phase |-> "idle",
     assistantId |-> 0, read |-> 0, ignored |-> "none"]

\* No request has been received yet.
HandlersInit ==
    /\ pc = [t \in Turns |-> "idle"]
    /\ req = [t \in Turns |-> NoRequest]
    /\ currentChatId = [t \in Turns |-> 0]
    /\ fullResponse = [t \in Turns |-> <<>>]
    /\ providerArgs = [t \in Turns |-> <<>>]
    /\ upstream = [t \in Turns |-> <<>>]
    /\ upstreamEnd = [t \in Turns |-> "none"]
    /\ stream = [t \in Turns |-> NoStream]
    /\ response = [t \in Turns |-> NoResponse]
    /\ trace = [t \in Turns |-> <<>>]
    /\ \/ chats = {} /\ messages = <<>>
       \/ chats = {PriorChat} /\ messages = PriorRows
    /\ apiKey \in BOOLEAN
    /\ imageUrl = [t \in Turns |-> <<>>]

Init ==
    /\ HandlersInit
    /\ ui = UiInit
    /\ friendly = NoFriendly
    /\ fetched = NoFetch
    /\ reader = NoReader
    /\ home = HomeInit

(***************************************************************************)
(* A client sends a request; no other request is being handled.            *)
(***************************************************************************)
Submit(t) ==
    /\ pc[t] = "idle"
    /\ \A u \in Turns : pc[u] = "idle"
    /\ \E r \in Requests :
        /\ req' = [req EXCEPT ![t] = r]
        /\ pc' = [pc EXCEPT ![t] = IF r.relay = "proxy" THEN "proxyParse" ELSE "parse"]
    /\ UNCHANGED <<turnVars, chats, messages, restVars>>

(***************************************************************************)
(* POST of app/api/chat/route.ts: the relay that persists.                 *)
(***************************************************************************)
ChatError == "An error occurred while processing your request"

\* `!messages || !Array.isArray(messages)` is false: the request is accepted.
ChatValid(r) == r.messagesKind = "array"

\* Mutant of NeedsChat: a chat is created for every request.
NeedsChatAlways(r) == r.chatId >= 0

\* `if (!currentChatId)`: no chat identifier came with the request.
NeedsChat(r) == r.chatId = 0

\* const { messages, chatId } = await req.json(); validation.
ChatParse(t) ==
    /\ pc[t] = "parse"
    /\ req[t].relay = "chat"
    /\ IF ~req[t].json
       THEN Reject(t, 500, ChatError) /\ UNCHANGED currentChatId
       ELSE IF ~ChatValid(req[t])
       THEN Reject(t, 400, "Invalid messages format") /\ UNCHANGED currentChatId
       ELSE /\ currentChatId' = [currentChatId EXCEPT ![t] = req[t].chatId]
            /\ pc' = [pc EXCEPT ![t] =
                        IF NeedsChat(req[t]) THEN "createChat" ELSE "storeUser"]
            /\ UNCHANGED response
    /\ UNCHANGED <<req, fullResponse, providerArgs, upstream, upstreamEnd,
                   stream, trace, chats, messages, restVars>>

\* supabase.from('chats').insert({}).select().single()
ChatCreateChat(t) ==
    /\ pc[t] = "createChat"
    /\ \E outcome \in {"ok", "error", "throw"} :
        /\ Logged2(t, "insert chat", outcome)
        /\ IF outcome = "ok"
           THEN /\ chats' = chats \cup {ChatRow(t)}
                /\ currentChatId' = [currentChatId EXCEPT ![t] = NewChatId]
                /\ pc' = [pc EXCEPT ![t] = "storeUser"]
                /\ UNCHANGED response
           ELSE /\ Reject(t, 500, IF outcome = "error"
                                  THEN "Failed to create chat" ELSE ChatError)
                /\ UNCHANGED <<chats, currentChatId>>
    /\ UNCHANGED <<req, fullResponse, providerArgs, upstream, upstreamEnd,
                   stream, messages, restVars>>

\* Mutant of UserInsertFatal: a returned error aborts the turn as well.
UserInsertFatalOnError(outcome) == outcome # "ok"

\* After the user-message insert: a returned error is logged and the handler
\* goes on; only a thrown exception reaches the outer catch.
UserInsertFatal(outcome) == outcome = "throw"

\* const userMessage = messages[messages.length - 1]; insert of the user row.
\* Reading `.content` of undefined (an empty array) throws a TypeError.
ChatStoreUser(t) ==
    /\ pc[t] = "storeUser"
    /\ IF req[t].messages = <<>>
       THEN Reject(t, 500, ChatError) /\ UNCHANGED <<messages, trace>>
       ELSE \E outcome \in InsertOutcomes(currentChatId[t]) :
            /\ Logged2(t, "insert user", outcome)
            /\ messages' =
                 IF outcome = "ok"
                 THEN Append(messages,
                             MessageRow(t, currentChatId[t],
                                        req[t].messages[Len(req[t].messages)].content,
                                        "user"))
                 ELSE messages
            /\ IF UserInsertFatal(outcome)
               THEN Reject(t, 500, ChatError)
               ELSE pc' = [pc EXCEPT ![t] = "createStream"] /\ UNCHANGED response
    /\ UNCHANGED <<req, currentChatId, fullResponse, providerArgs, upstream,
                   upstreamEnd, stream, chats, restVars>>

\* messages.map(m => ({ role: m.role, content: m.content }))
ChatProviderMessages(r) ==
    [i \in 1..Len(r.messages) |->
        [role |-> r.messages[i].role, content |-> r.messages[i].content]]

\* new NextResponse(readable, { headers: { 'X-Chat-Id': currentChatId } })
ChatStreamResponse(chatId) ==
    [status |-> 200, type |-> "text", chatIdHeader |-> chatId, error |-> "",
     imageUrl |-> <<>>]

\* await openai.chat.completions.create(...), then the ReadableStream is
\* constructed (start runs up to its first await) and the response returned.
ChatCreateStream(t) ==
    /\ pc[t] = "createStream"
    /\ req[t].relay = "chat"
    /\ providerArgs' = [providerArgs EXCEPT ![t] = ChatProviderMessages(req[t])]
    /\ \E outcome \in {"ok", "throw"} :
        /\ Logged2(t, "create", outcome)
        /\ IF outcome = "ok"
           THEN /\ stream' = [stream EXCEPT ![t] = NewReadable]
                /\ fullResponse' = [fullResponse EXCEPT ![t] = <<>>]
                /\ upstreamEnd' = [upstreamEnd EXCEPT ![t] = "open"]
                /\ Respond(t, ChatStreamResponse(currentChatId[t]))
                /\ pc' = [pc EXCEPT ![t] = "loop"]
           ELSE /\ Reject(t, 500, ChatError)
                /\ UNCHANGED <<stream, fullResponse, upstreamEnd>>
    /\ UNCHANGED <<req, currentChatId, upstream, chats, messages, restVars>>

\* Mutant of ChatLoopBody: a chunk equal to the one enqueued last is dropped.
ChatLoopBodyDeduplicating(s, content) ==
    IF content = <<>> THEN s
    ELSE IF s.events # <<>> /\ s.events[Len(s.events)].content = content THEN s
    ELSE ControllerEnqueue(s, RawEvent(content))

\* The body of the for-await loop on the client stream: a chunk with content
\* is enqueued as one raw text chunk, a chunk without content is skipped.
ChatLoopBody(s, content) ==
    IF content # <<>> THEN ControllerEnqueue(s, RawEvent(content)) ELSE s

\* Mutant of ChatStreamCatch: the catch block stores what was accumulated.
ChatStreamCatchPersists(t) ==
    /\ stream' = [stream EXCEPT ![t] = ControllerError(@)]
    /\ Logged(t, "controller.error")
    /\ pc' = [pc EXCEPT ![t] = "done"]
    /\ messages' = Append(messages,
                          MessageRow(t, currentChatId[t], fullResponse[t], "assistant"))

\* catch (error) { controller.error(error) } of start(): nothing is stored.
ChatStreamCatch(t) ==
    /\ stream' = [stream EXCEPT ![t] = ControllerError(@)]
    /\ Logged(t, "controller.error")
    /\ pc' = [pc EXCEPT ![t] = "done"]
    /\ UNCHANGED messages

\* Mutant of Accumulate: the accumulator is one variable of the module,
\* shared by every invocation.
AccumulateShared(full, t, content) == [u \in Turns |-> full[u] \o content]

\* fullResponse += content, on the `let fullResponse` of this invocation's
\* start().
Accumulate(full, t, content) == [full EXCEPT ![t] = @ \o content]

\* One iteration of `for await (const chunk of stream)`.
ChatForward(t) ==
    /\ pc[t] = "loop"
    /\ req[t].relay = "chat"
    /\ ChunksYielded < MaxChunks
    /\ \E content \in ChunkContents :
        /\ upstream' = [upstream EXCEPT ![t] = Append(@, content)]
        /\ IF content # <<>> /\ ControllerThrows(stream[t])
           THEN ChatStreamCatch(t) /\ UNCHANGED fullResponse
           ELSE /\ stream' = [stream EXCEPT ![t] = ChatLoopBody(@, content)]
                /\ fullResponse' = Accumulate(fullResponse, t, content)
                /\ UNCHANGED <<pc, trace, messages>>
    /\ UNCHANGED <<req, currentChatId, providerArgs, upstreamEnd, response,
                   chats, restVars>>

\* The upstream iterator throws.
ChatUpstreamError(t) ==
    /\ pc[t] = "loop"
    /\ req[t].relay = "chat"
    /\ upstreamEnd' = [upstreamEnd EXCEPT ![t] = "thrown"]
    /\ ChatStreamCatch(t)
    /\ UNCHANGED <<req, currentChatId, fullResponse, providerArgs, upstream,
                   response, chats, restVars>>

\* Mutant of ChatUpstreamEnd: the stream is closed before the insert is issued.
ChatUpstreamEndClosesFirst(t) ==
    /\ pc[t] = "loop"
    /\ req[t].relay = "chat"
    /\ upstreamEnd' = [upstreamEnd EXCEPT ![t] = "done"]
    /\ stream' = [stream EXCEPT ![t] =
                    IF ControllerThrows(@) THEN @ ELSE ControllerClose(@)]
    /\ Logged2(t, "controller.close", "insert assistant")
    /\ pc' = [pc EXCEPT ![t] = "storeAssistant"]
    /\ UNCHANGED <<req, currentChatId, fullResponse, providerArgs, upstream,
                   response, chats, messages, restVars>>

\* The upstream iterator is exhausted: the assistant-message insert is issued.
ChatUpstreamEnd(t) ==
    /\ pc[t] = "loop"
    /\ req[t].relay = "chat"
    /\ upstreamEnd' = [upstreamEnd EXCEPT ![t] = "done"]
    /\ Logged(t, "insert assistant")
    /\ pc' = [pc EXCEPT ![t] = "storeAssistant"]
    /\ UNCHANGED <<req, currentChatId, fullResponse, providerArgs, upstream,
                   stream, response, chats, messages, restVars>>

\* The assistant-message insert returns (or throws); then controller.close().
ChatAssistantStored(t) ==
    /\ pc[t] = "storeAssistant"
    /\ \E outcome \in InsertOutcomes(currentChatId[t]) :
        /\ messages' =
             IF outcome = "ok"
             THEN Append(messages,
                         MessageRow(t, currentChatId[t], fullResponse[t], "assistant"))
             ELSE messages
        /\ IF outcome = "throw" \/ ControllerThrows(stream[t])
           THEN /\ stream' = [stream EXCEPT ![t] = ControllerError(@)]
                /\ Logged2(t, outcome, "controller.error")
           ELSE /\ stream' = [stream EXCEPT ![t] = ControllerClose(@)]
                /\ Logged2(t, outcome, "controller.close")
    /\ pc' = [pc EXCEPT ![t] = "done"]
    /\ UNCHANGED <<req, currentChatId, fullResponse, providerArgs, upstream,
                   upstreamEnd, response, chats, restVars>>

(***************************************************************************)
(* The Deno.serve handler of supabase/functions/chat-text/index.ts.        *)
(***************************************************************************)
EdgeError == "Internal server error"

\* `!message || typeof message !== 'string'` is false.
EdgeValid(r) == r.messageKind = "string" /\ r.message # <<>>

\* [...history, { role: 'user', content: message }], history defaulting to [].
EdgeProviderMessages(r) ==
    r.history \o <<[role |-> "user", content |-> r.message]>>

\* new Response(readableStream, { headers: { ...corsHeaders, ... } })
EdgeStreamResponse ==
    [status |-> 200, type |-> "stream", chatIdHeader |-> 0, error |-> "",
     imageUrl |-> <<>>]

\* if (req.method === 'OPTIONS') return new Response('ok', ...)
EdgeOptions(t) ==
    /\ pc[t] = "parse"
    /\ req[t].relay = "edge"
    /\ req[t].method = "OPTIONS"
    /\ Respond(t, [status |-> 200, type |-> "text", chatIdHeader |-> 0,
                    error |-> "", imageUrl |-> <<>>])
    /\ pc' = [pc EXCEPT ![t] = "done"]
    /\ UNCHANGED <<req, currentChatId, fullResponse, providerArgs, upstream,
                   upstreamEnd, stream, trace, chats, messages, restVars>>

\* await req.json(), validation, the API key check and the messages array.
\* Spreading a history that is not iterable throws a TypeError.
EdgeParse(t) ==
    /\ pc[t] = "parse"
    /\ req[t].relay \in {"edge", "proxy"}
    /\ req[t].method = "POST"
    /\ IF ~req[t].json
       THEN Reject(t, 500, EdgeError) /\ UNCHANGED providerArgs
       ELSE IF ~EdgeValid(req[t])
       THEN /\ Reject(t, 400, "Message is required and must be a string")
            /\ UNCHANGED providerArgs
       ELSE IF ~apiKey
       THEN /\ Reject(t, 500, "OpenAI API key not configured")
            /\ UNCHANGED providerArgs
       ELSE IF req[t].historyKind = "nonIterable"
       THEN Reject(t, 500, EdgeError) /\ UNCHANGED providerArgs
       ELSE /\ providerArgs' = [providerArgs EXCEPT ![t] = EdgeProviderMessages(req[t])]
            /\ pc' = [pc EXCEPT ![t] = "createStream"]
            /\ UNCHANGED response
    /\ UNCHANGED <<req, currentChatId, fullResponse, upstream, upstreamEnd,
                   stream, trace, chats, messages, restVars>>

\* Mutant of EdgeCreateStream: a failed create is answered with an empty
\* stream that is closed at once.
EdgeCreateStreamSwallows(t) ==
    /\ pc[t] = "createStream"
    /\ req[t].relay \in {"edge", "proxy"}
    /\ \E outcome \in {"ok", "throw"} :
        /\ Logged2(t, "create", outcome)
        /\ Respond(t, EdgeStreamResponse)
        /\ IF outcome = "ok"
           THEN /\ stream' = [stream EXCEPT ![t] = NewReadable]
                /\ upstreamEnd' = [upstreamEnd EXCEPT ![t] = "open"]
                /\ pc' = [pc EXCEPT ![t] = "loop"]
           ELSE /\ stream' = [stream EXCEPT ![t] = ControllerClose(NewReadable)]
                /\ pc' = [pc EXCEPT ![t] = "done"]
                /\ UNCHANGED upstreamEnd
    /\ UNCHANGED <<req, currentChatId, fullResponse, providerArgs, upstream,
                   chats, messages, restVars>>

\* await openai.chat.completions.create(...), then the ReadableStream is
\* constructed and the response returned.
EdgeCreateStream(t) ==
    /\ pc[t] = "createStream"
    /\ req[t].relay \in {"edge", "proxy"}
    /\ \E outcome \in {"ok", "throw"} :
        /\ Logged2(t, "create", outcome)
        /\ IF outcome = "ok"
           THEN /\ stream' = [stream EXCEPT ![t] = NewReadable]
                /\ upstreamEnd' = [upstreamEnd EXCEPT ![t] = "open"]
                /\ Respond(t, EdgeStreamResponse)
                /\ pc' = [pc EXCEPT ![t] = "loop"]
           ELSE /\ Reject(t, 500, EdgeError)
                /\ UNCHANGED <<stream, upstreamEnd>>
    /\ UNCHANGED <<req, currentChatId, fullResponse, providerArgs, upstream,
                   chats, messages, restVars>>

\* Mutant of EdgeLoopBody: content is appended to the event enqueued last.
EdgeLoopBodyCoalescing(s, content) ==
    IF content = <<>> THEN s
    ELSE IF s.events = <<>> THEN ControllerEnqueue(s, ContentEvent(content))
    ELSE [s EXCEPT !.events[Len(s.events)].content = @ \o content]

\* The body of the for-await loop: a chunk with content becomes one
\* server-sent event, a chunk without content is skipped.
EdgeLoopBody(s, content) ==
    IF content # <<>> THEN ControllerEnqueue(s, ContentEvent(content)) ELSE s

\* catch (error): the error event is enqueued and the stream closed.  When
\* the stream is not readable the enqueue throws in turn and start() rejects.
EdgeStreamCatch(t) ==
    /\ stream' = [stream EXCEPT ![t] =
                    IF ControllerThrows(@) THEN @
                    ELSE ControllerClose(ControllerEnqueue(@, ErrorEvent))]
    /\ Logged(t, "catch")
    /\ pc' = [pc EXCEPT ![t] = "done"]

\* One iteration of `for await (const chunk of stream)`.
EdgeForward(t) ==
    /\ pc[t] = "loop"
    /\ req[t].relay \in {"edge", "proxy"}
    /\ ChunksYielded < MaxChunks
    /\ \E content \in ChunkContents :
        /\ upstream' = [upstream EXCEPT ![t] = Append(@, content)]
        /\ IF content # <<>> /\ ControllerThrows(stream[t])
           THEN EdgeStreamCatch(t)
           ELSE /\ stream' = [stream EXCEPT ![t] = EdgeLoopBody(@, content)]
                /\ UNCHANGED <<pc, trace>>
    /\ UNCHANGED <<req, currentChatId, fullResponse, providerArgs, upstreamEnd,
                   response, chats, messages, restVars>>

\* The upstream iterator throws.
EdgeUpstreamError(t) ==
    /\ pc[t] = "loop"
    /\ req[t].relay \in {"edge", "proxy"}
    /\ upstreamEnd' = [upstreamEnd EXCEPT ![t] = "thrown"]
    /\ EdgeStreamCatch(t)
    /\ UNCHANGED <<req, currentChatId, fullResponse, providerArgs, upstream,
                   response, chats, messages, restVars>>

\* Mutant of EdgeUpstreamEnd: the end signal is sent and the stream is left
\* open.
EdgeUpstreamEndLeavesOpen(t) ==
    /\ pc[t] = "loop"
    /\ req[t].relay \in {"edge", "proxy"}
    /\ upstreamEnd' = [upstreamEnd EXCEPT ![t] = "done"]
    /\ IF ControllerThrows(stream[t])
       THEN EdgeStreamCatch(t)
       ELSE /\ stream' = [stream EXCEPT ![t] = ControllerEnqueue(@, DoneEvent)]
            /\ Logged(t, "controller.close")
            /\ pc' = [pc EXCEPT ![t] = "done"]
    /\ UNCHANGED <<req, currentChatId, fullResponse, providerArgs, upstream,
                   response, chats, messages, restVars>>

\* The upstream iterator is exhausted: the end signal is sent and the stream
\* closed.
EdgeUpstreamEnd(t) ==
    /\ pc[t] = "loop"
    /\ req[t].relay \in {"edge", "proxy"}
    /\ upstreamEnd' = [upstreamEnd EXCEPT ![t] = "done"]
    /\ IF ControllerThrows(stream[t])
       THEN EdgeStreamCatch(t)
       ELSE /\ stream' = [stream EXCEPT ![t] =
                            ControllerClose(ControllerEnqueue(@, DoneEvent))]
            /\ Logged(t, "controller.close")
            /\ pc' = [pc EXCEPT ![t] = "done"]
    /\ UNCHANGED <<req, currentChatId, fullResponse, providerArgs, upstream,
                   response, chats, messages, restVars>>

(***************************************************************************)
(* POST of app/api/chat-text/route.ts: the proxy in front of the edge      *)
(* function.                                                               *)
(***************************************************************************)
\* const body = await request.json()
ProxyParse(t) ==
    /\ pc[t] = "proxyParse"
    /\ IF ~req[t].json
       THEN Reject(t, 500, "Internal server error")
       ELSE pc' = [pc EXCEPT ![t] = "proxyFetch"] /\ UNCHANGED response
    /\ UNCHANGED <<req, currentChatId, fullResponse, providerArgs, upstream,
                   upstreamEnd, stream, trace, chats, messages, restVars>>

\* await fetch(`${supabaseUrl}/functions/v1/chat-text`, ...): the request
\* reaches the edge function, or fetch throws.
ProxyFetch(t) ==
    /\ pc[t] = "proxyFetch"
    /\ \E outcome \in {"ok", "throw"} :
        IF outcome = "ok"
        THEN pc' = [pc EXCEPT ![t] = "parse"] /\ UNCHANGED response
        ELSE Reject(t, 500, "Internal server error")
    /\ UNCHANGED <<req, currentChatId, fullResponse, providerArgs, upstream,
                   upstreamEnd, stream, trace, chats, messages, restVars>>

(***************************************************************************)
(* The image route (app/api/generate-image/route.ts).                      *)
(***************************************************************************)
ImageError == "An error occurred while generating the image"

\* !prompt || typeof prompt !== 'string'
InvalidPrompt(r) == r.promptKind # "string" \/ r.prompt = <<>>

\* `Image generated from prompt: "${prompt}"`
Caption(prompt) == <<"I", "m", "a", "g", "e", ":", "\"">> \o prompt \o <<"\"">>

ImageUserRow(t, r) == Row(t, r.chatId, r.prompt, "user", "image", <<>>)

\* Mutant of ImageAssistantRow: the row is written as a text message.
ImageAssistantRowAsText(t, r, url) ==
    Row(t, r.chatId, Caption(r.prompt), "assistant", "text", url)

ImageAssistantRow(t, r, url) ==
    Row(t, r.chatId, Caption(r.prompt), "assistant", "image", url)

\* Mutant of NoImage: a missing URL is let through.
NoImageIgnored(url) == FALSE

\* if (!imageUrl) throw new Error('No image generated')
NoImage(url) == url = <<>>

\* NextResponse.json({ imageUrl })
ImageResponse(url) ==
    [status |-> 200, type |-> "json", chatIdHeader |-> 0, error |-> "",
     imageUrl |-> url]

\* const { prompt, chatId } = await req.json() and the two validations.
ImageParse(t) ==
    /\ pc[t] = "parse"
    /\ req[t].relay = "image"
    /\ IF ~req[t].json
       THEN Reject(t, 500, ImageError)
       ELSE IF InvalidPrompt(req[t])
       THEN Reject(t, 400, "Invalid prompt")
       ELSE IF req[t].chatId = 0
       THEN Reject(t, 400, "Chat ID is required")
       ELSE pc' = [pc EXCEPT ![t] = "imageStoreUser"] /\ UNCHANGED response
    /\ UNCHANGED <<req, currentChatId, fullResponse, providerArgs, upstream,
                   upstreamEnd, stream, trace, chats, messages, restVars>>

\* Mutant of ImageStoreUser: the user message is not written.
ImageStoreUserSkipped(t) ==
    /\ pc[t] = "imageStoreUser"
    /\ pc' = [pc EXCEPT ![t] = "generate"]
    /\ UNCHANGED <<req, currentChatId, fullResponse, providerArgs, upstream,
                   upstreamEnd, stream, response, trace, chats, messages, restVars>>

\* Insert of the user row: a returned error is only logged, a thrown
\* exception reaches the outer catch.
ImageStoreUser(t) ==
    /\ pc[t] = "imageStoreUser"
    /\ \E outcome \in InsertOutcomes(req[t].chatId) :
        /\ Logged2(t, "insert user", outcome)
        /\ messages' = IF outcome = "ok"
                       THEN Append(messages, ImageUserRow(t, req[t]))
                       ELSE messages
        /\ IF outcome = "throw"
           THEN Reject(t, 500, ImageError)
           ELSE pc' = [pc EXCEPT ![t] = "generate"] /\ UNCHANGED response
    /\ UNCHANGED <<req, currentChatId, fullResponse, providerArgs, upstream,
                   upstreamEnd, stream, chats, restVars>>

\* await openai.images.generate(...): it throws, or answers with or without
\* a URL; without one the handler throws.
ImageGenerate(t) ==
    /\ pc[t] = "generate"
    /\ \E outcome \in {"ok", "nourl", "throw"} :
        LET url == IF outcome = "ok" THEN Url ELSE <<>>
        IN  /\ Logged2(t, "generate", outcome)
            /\ IF outcome = "throw" \/ NoImage(url)
               THEN Reject(t, 500, ImageError) /\ UNCHANGED imageUrl
               ELSE /\ imageUrl' = [imageUrl EXCEPT ![t] = url]
                    /\ pc' = [pc EXCEPT ![t] = "imageStoreAssistant"]
                    /\ UNCHANGED response
    /\ UNCHANGED <<req, currentChatId, fullResponse, providerArgs, upstream,
                   upstreamEnd, stream, chats, messages, apiKey, ui, friendly, sideVars>>

\* Insert of the assistant row, then NextResponse.json({ imageUrl }).
ImageStoreAssistant(t) ==
    /\ pc[t] = "imageStoreAssistant"
    /\ \E outcome \in InsertOutcomes(req[t].chatId) :
        /\ Logged2(t, "insert assistant", outcome)
        /\ messages' = IF outcome = "ok"
                       THEN Append(messages,
                                   ImageAssistantRow(t, req[t], imageUrl[t]))
                       ELSE messages
        /\ IF outcome = "throw"
           THEN Reject(t, 500, ImageError)
           ELSE /\ Respond(t, ImageResponse(imageUrl[t]))
                /\ pc' = [pc EXCEPT ![t] = "done"]
    /\ UNCHANGED <<req, currentChatId, fullResponse, providerArgs, upstream,
                   upstreamEnd, stream, chats, restVars>>

(***************************************************************************)
(* The Chat UI (app/page.tsx), in text mode.                               *)
(***************************************************************************)
\* 'Sorry, I encountered an error. Please try again.'
SorryText == <<"S", "o", "r", "r", "y">>

\* Date.now() read `d` milliseconds after the last reading.
DateNow(u, d) == u.now + d

\* A Message of the page; imageUrl is optional (<<>> when absent).
UiImageMessage(id, role, content, type, url) ==
    [id |-> id, role |-> role, content |-> content, type |-> type,
     imageUrl |-> url]

UiMessage(id, role, content) == UiImageMessage(id, role, content, "text", <<>>)

\* The body handleTextStream posts to /api/chat-text: { message: userInput }.
UiRequest ==
    [NoRequest EXCEPT !.relay = "proxy", !.messageKind = "string",
                      !.message = Hello]

\* Mutant of UiCaught: the error message is appended and loading goes on.
UiCaughtStaysLoading(u, d) ==
    [u EXCEPT !.messages = Append(@, UiMessage(DateNow(u, d) + 1, "assistant",
                                               SorryText)),
              !.now = DateNow(u, d),
              !.phase = "finished"]

\* catch and finally of handleSubmit: the error message is appended and
\* loading ends.
UiCaught(u, d) ==
    [u EXCEPT !.messages = Append(@, UiMessage(DateNow(u, d) + 1, "assistant",
                                               SorryText)),
              !.now = DateNow(u, d),
              !.isLoading = FALSE,
              !.phase = "finished"]

\* setMessages(prev => prev.map(...)): `content` is appended to every
\* message whose id is that of the placeholder.
UiAppend(u, content) ==
    [u EXCEPT !.messages =
        [i \in 1..Len(@) |->
            IF @[i].id = u.assistantId
            THEN [@[i] EXCEPT !.content = @ \o content]
            ELSE @[i]]]

\* What the user may have typed when the form is submitted.
UiInputs == {<<>>, <<" ", " ">>, Hello}

RECURSIVE TrimStart(_)
TrimStart(s) ==
    IF s # <<>> /\ Head(s) = " " THEN TrimStart(Tail(s)) ELSE s

RECURSIVE TrimEnd(_)
TrimEnd(s) ==
    IF s # <<>> /\ s[Len(s)] = " " THEN TrimEnd(SubSeq(s, 1, Len(s) - 1)) ELSE s

\* String.prototype.trim
Trim(s) == TrimEnd(TrimStart(s))

\* if (!inputValue.trim() || isLoading) return;
UiSubmitReturns(u, input) == Trim(input) = <<>> \/ u.isLoading

\* handleSubmit returns at its guard: nothing is shown and nothing is sent.
\* Which of the two reasons applied is kept for the record, from the first
\* turn of the page on (before it, such a submit leaves no trace at all).
UiSubmitIgnored ==
    /\ ui.turn # 0
    /\ \E input \in UiInputs :
        /\ UiSubmitReturns(ui, input)
        /\ ui' = [ui EXCEPT !.ignored = IF ui.isLoading THEN "loading" ELSE "blank"]
    /\ UNCHANGED <<pc, req, turnVars, chats, messages, apiKey, imageUrl,
                   friendly, sideVars>>

\* handleSubmit up to the fetch of handleTextStream: the user message and
\* the empty assistant placeholder are shown, loading begins, the request
\* is sent.
UiSubmit(t) ==
    /\ ui.phase = "idle"
    /\ ~UiSubmitReturns(ui, Hello)
    /\ \A u \in Turns : pc[u] = "idle"
    /\ \E d1, d2 \in {0, 1} :
        LET t1 == DateNow(ui, d1)
            t2 == t1 + d2
        IN  ui' = [ui EXCEPT
                      !.messages = @ \o << UiMessage(t1, "user", Hello),
                                           UiMessage(t2 + 1, "assistant", <<>>) >>,
                      !.now = t2,
                      !.isLoading = TRUE,
                      !.turn = t,
                      !.phase = "fetching",
                      !.assistantId = t2 + 1]
    /\ req' = [req EXCEPT ![t] = UiRequest]
    /\ pc' = [pc EXCEPT ![t] = "proxyParse"]
    /\ UNCHANGED <<turnVars, chats, messages, apiKey, imageUrl, friendly, sideVars>>

\* The body handleImageGeneration posts: { prompt }.
UiImageRequest ==
    [NoRequest EXCEPT !.relay = "image", !.promptKind = "string",
                      !.prompt = Bicycle]

\* `Here's the image you requested: "${prompt}"`
HereIs(prompt) == <<"H", "e", "r", "e", ":", "\"">> \o prompt \o <<"\"">>

\* handleSubmit in image mode up to the fetch of handleImageGeneration: the
\* user message is shown, loading begins, the request is sent.
UiSubmitImage(t) ==
    /\ ui.phase = "idle"
    /\ ~UiSubmitReturns(ui, Bicycle)
    /\ \A u \in Turns : pc[u] = "idle"
    /\ \E d \in {0, 1} :
        ui' = [ui EXCEPT
                  !.messages = Append(@, UiImageMessage(DateNow(ui, d), "user",
                                                        Bicycle, "image", <<>>)),
                  !.now = DateNow(ui, d),
                  !.isLoading = TRUE,
                  !.turn = t,
                  !.phase = "fetchingImage"]
    /\ req' = [req EXCEPT ![t] = UiImageRequest]
    /\ pc' = [pc EXCEPT ![t] = "parse"]
    /\ UNCHANGED <<turnVars, chats, messages, apiKey, imageUrl, friendly, sideVars>>

\* The fetch of handleImageGeneration resolves: a response that is not ok
\* throws and handleSubmit catches; otherwise the image message is shown.
\* Finally, loading ends.
UiImageResponse(t) ==
    /\ ui.turn = t
    /\ ui.phase = "fetchingImage"
    /\ response[t].status # 0
    /\ \E d \in {0, 1} :
        ui' = IF Ok(response[t])
              THEN [ui EXCEPT
                       !.messages = Append(@, UiImageMessage(
                                                  DateNow(ui, d) + 1, "assistant",
                                                  HereIs(Bicycle), "image",
                                                  response[t].imageUrl)),
                       !.now = DateNow(ui, d),
                       !.isLoading = FALSE,
                       !.phase = "finished"]
              ELSE UiCaught(ui, d)
    /\ UNCHANGED <<pc, req, turnVars, chats, messages, apiKey, imageUrl, friendly, sideVars>>

\* The fetch resolves: a response that is not ok throws, and handleSubmit
\* catches.
UiResponse(t) ==
    /\ ui.turn = t
    /\ ui.phase = "fetching"
    /\ response[t].status # 0
    /\ ~stream[t].cancelled
    /\ IF response[t].status \in 200..299
       THEN ui' = [ui EXCEPT !.phase = "reading"]
       ELSE \E d \in {0, 1} : ui' = UiCaught(ui, d)
    /\ UNCHANGED <<pc, req, turnVars, chats, messages, apiKey, imageUrl, friendly, sideVars>>

\* One `data: ` line of the body is parsed: only data.content is looked at.
UiRead(t) ==
    /\ ui.turn = t
    /\ ui.phase = "reading"
    /\ ~stream[t].cancelled
    /\ ui.read < Len(stream[t].events)
    /\ LET e == stream[t].events[ui.read + 1]
           u == [ui EXCEPT !.read = @ + 1]
       IN  ui' = IF e.frame = "sse" /\ e.key = "content" /\ e.content # <<>>
                 THEN UiAppend(u, e.content)
                 ELSE u
    /\ UNCHANGED <<pc, req, turnVars, chats, messages, apiKey, imageUrl, friendly, sideVars>>

\* reader.read() reports done and the loop is left, or it rejects and
\* handleSubmit catches; finally, loading ends.
UiStreamEnd(t) ==
    /\ ui.turn = t
    /\ ui.phase = "reading"
    /\ ~stream[t].cancelled
    /\ \/ /\ stream[t].state = "closed"
          /\ ui.read = Len(stream[t].events)
          /\ ui' = [ui EXCEPT !.isLoading = FALSE, !.phase = "finished"]
       \/ /\ stream[t].state = "errored"
          /\ \E d \in {0, 1} : ui' = UiCaught(ui, d)
    /\ UNCHANGED <<pc, req, turnVars, chats, messages, apiKey, imageUrl, friendly, sideVars>>

(***************************************************************************)
(* The calling client.                                                     *)
(***************************************************************************)
\* The client goes away while the body is being streamed: the stream is
\* cancelled.
ClientDisconnect(t) ==
    /\ stream[t].state = "readable"
    /\ stream' = [stream EXCEPT ![t] = StreamCancel(@)]
    /\ UNCHANGED <<pc, req, currentChatId, fullResponse, providerArgs, upstream,
                   upstreamEnd, response, trace, chats, messages, restVars>>

Next ==
    \/ \E t \in Turns :
            \/ Submit(t)
            \/ ChatParse(t)
            \/ ChatCreateChat(t)
            \/ ChatStoreUser(t)
            \/ ChatCreateStream(t)
            \/ ChatForward(t)
            \/ ChatUpstreamError(t)
            \/ ChatUpstreamEnd(t)
            \/ ChatAssistantStored(t)
            \/ EdgeOptions(t)
            \/ EdgeParse(t)
            \/ EdgeCreateStream(t)
            \/ EdgeForward(t)
            \/ EdgeUpstreamError(t)
            \/ EdgeUpstreamEnd(t)
            \/ ProxyParse(t)
            \/ ProxyFetch(t)
            \/ ImageParse(t)
            \/ ImageStoreUser(t)
            \/ ImageGenerate(t)
            \/ ImageStoreAssistant(t)
            \/ ClientDisconnect(t)
            \/ UiSubmit(t)
            \/ UiResponse(t)
            \/ UiRead(t)
            \/ UiStreamEnd(t)
            \/ UiSubmitImage(t)
            \/ UiImageResponse(t)
    \/ UiSubmitIgnored

Spec == Init /\ [][Next]_vars

(***************************************************************************)
(* The chat history (lib/chat-service.ts).                                 *)
(***************************************************************************)
\* The chats a history is asked for.
FetchIds == {1, 2}

\* The orders a scan of the table can yield the rows `rows` in: the store
\* promises none.
Scans(rows) ==
    LET n == Len(rows)
        perms == { f \in [1..n -> 1..n] : \A i, j \in 1..n : f[i] = f[j] => i = j }
    IN  { [i \in 1..n |-> rows[f[i]]] : f \in perms }

\* Mutant of SelectAll: the image_url column is not selected.
SelectAllButImageUrl(m) ==
    [id |-> m.id, chat_id |-> m.chat_id, content |-> m.content, role |-> m.role,
     message_type |-> m.message_type, image_url |-> <<>>,
     created_at |-> m.created_at]

\* .select('*'): every column of the row.
SelectAll(m) ==
    [id |-> m.id, chat_id |-> m.chat_id, content |-> m.content, role |-> m.role,
     message_type |-> m.message_type, image_url |-> m.image_url,
     created_at |-> m.created_at]

\* .eq('chat_id', chatId)
Eq(rows, chatId) == SelectSeq(rows, LAMBDA m : m.chat_id = chatId)

RECURSIVE Insert(_, _)
\* `m` put into the ascending sequence `sorted` after the rows that are not
\* later than it.
Insert(sorted, m) ==
    IF sorted = <<>> THEN <<m>>
    ELSE IF Head(sorted).created_at <= m.created_at
    THEN <<Head(sorted)>> \o Insert(Tail(sorted), m)
    ELSE <<m>> \o sorted

RECURSIVE Sorted(_)
Sorted(rows) ==
    IF rows = <<>> THEN <<>> ELSE Insert(Sorted(Tail(rows)), Head(rows))

\* Mutant of OrderByCreatedAt: the rows are handed on as scanned.
OrderByNothing(rows) == rows

\* .order('created_at', { ascending: true })
OrderByCreatedAt(rows) == Sorted(rows)

\* fetchChatMessages(chatId): the rows of the chat in ascending order of
\* creation, or the store answers with an error and the function throws.
FetchChatMessages(chatId) ==
    /\ fetched.status = "none"
    /\ \E outcome \in {"ok", "error"} :
        IF outcome = "ok"
        THEN \E scan \in Scans(messages) :
                 fetched' =
                     [status |-> "ok", chatId |-> chatId, at |-> Len(messages),
                      rows |-> LET sel == OrderByCreatedAt(Eq(scan, chatId))
                               IN  [i \in 1..Len(sel) |-> SelectAll(sel[i])]]
        ELSE fetched' = [NoFetch EXCEPT !.status = "error", !.chatId = chatId]
    /\ UNCHANGED <<pc, req, turnVars, chats, messages, apiKey, imageUrl, ui,
                   friendly, reader, home>>

\* The handlers and the page, with a history asked for at any moment.
NextHistory ==
    \/ Next
    \/ \E chatId \in FetchIds : FetchChatMessages(chatId)

SpecHistory == Init /\ [][NextHistory]_vars

(***************************************************************************)
(* Progress: every await of a handler and of the page settles.  The        *)
(* provider's iterator ends or throws after finitely many chunks, every    *)
(* store call and every fetch returns, the page reads what has arrived.    *)
(***************************************************************************)
Progress ==
    \A t \in Turns :
        /\ WF_vars(ChatParse(t) \/ ChatCreateChat(t) \/ ChatStoreUser(t)
                       \/ ChatCreateStream(t))
        /\ WF_vars(ChatUpstreamEnd(t) \/ ChatUpstreamError(t))
        /\ WF_vars(ChatAssistantStored(t))
        /\ WF_vars(EdgeParse(t) \/ EdgeCreateStream(t))
        /\ WF_vars(EdgeUpstreamEnd(t) \/ EdgeUpstreamError(t))
        /\ WF_vars(ProxyParse(t) \/ ProxyFetch(t))
        /\ WF_vars(ImageParse(t) \/ ImageStoreUser(t) \/ ImageGenerate(t)
                       \/ ImageStoreAssistant(t))
        /\ WF_vars(UiResponse(t) \/ UiRead(t) \/ UiStreamEnd(t)
                       \/ UiImageResponse(t))

SpecFair == Init /\ [][Next]_vars /\ Progress

(***************************************************************************)
(* Concurrent turns: a request arrives while another is being handled.     *)
(***************************************************************************)
\* Requests that pass validation: a new conversation, the next turn of
\* chat 1, and a message for the edge function.
ConcurrentRequests ==
    { [NoRequest EXCEPT !.relay = "chat", !.messagesKind = "array",
                        !.messages = <<UserMsg>>],
      [NoRequest EXCEPT !.relay = "chat", !.messagesKind = "array",
                        !.messages = <<PriorUser, PriorAssistant, UserMsg>>,
                        !.chatId = 1],
      [NoRequest EXCEPT !.relay = "edge", !.messageKind = "string",
                        !.message = Hello] }

\* Each request gets an invocation of its own, whatever the others are doing.
SubmitConcurrent(t) ==
    /\ pc[t] = "idle"
    /\ \E r \in ConcurrentRequests :
        /\ req' = [req EXCEPT ![t] = r]
        /\ pc' = [pc EXCEPT ![t] = "parse"]
    /\ UNCHANGED <<turnVars, chats, messages, restVars>>

NextConcurrent ==
    \E t \in Turns :
        \/ SubmitConcurrent(t)
        \/ ChatParse(t)
        \/ ChatCreateChat(t)
        \/ ChatStoreUser(t)
        \/ ChatCreateStream(t)
        \/ ChatForward(t)
        \/ ChatUpstreamError(t)
        \/ ChatUpstreamEnd(t)
        \/ ChatAssistantStored(t)
        \/ EdgeParse(t)
        \/ EdgeCreateStream(t)
        \/ EdgeForward(t)
        \/ EdgeUpstreamError(t)
        \/ EdgeUpstreamEnd(t)

\* The store holds chat 1 and the provider key is configured.
InitConcurrent ==
    /\ Init
    /\ chats = {PriorChat}
    /\ apiKey

SpecConcurrent == InitConcurrent /\ [][NextConcurrent]_vars

(***************************************************************************)
(* lib/error-handler.ts.                                                   *)
(***************************************************************************)
MaxParts == 3

\* Pieces error messages are made of.
Fragments ==
    { <<"O", "p", "e", "n", "A", "I">>,
      <<" ", "A", "P", "I">>,
      <<"n", "e", "t", "w", "o", "r", "k">>,
      <<"t", "i", "m", "e", "o", "u", "t">>,
      <<"r", "a", "t", "e">>,
      <<" ", "l", "i", "m", "i", "t">>,
      <<"N">> }

RECURSIVE MessagesOf(_)
\* The messages made of at most n fragments.
MessagesOf(n) ==
    IF n = 0 THEN {<<>>}
    ELSE LET shorter == MessagesOf(n - 1)
         IN  shorter \cup { m \o f : m \in shorter, f \in Fragments }

\* What gets thrown: an object with a string message, a string, undefined.
Thrown ==
    { [kind |-> k, text |-> m] : k \in {"error", "string"}, m \in MessagesOf(MaxParts) }
        \cup { [kind |-> "undefined", text |-> <<>>] }

\* String.prototype.includes
Includes(s, p) ==
    \E i \in 0..(Len(s) - Len(p)) : SubSeq(s, i + 1, i + Len(p)) = p

IsErrorWithMessage(e) == e.kind = "error"

\* JSON.stringify: a string is put between double quotes; of undefined it is
\* undefined, and new Error(undefined) has the message ''.
JsonStringify(e) ==
    IF e.kind = "string" THEN <<"\"">> \o e.text \o <<"\"">> ELSE <<>>

ToErrorWithMessage(e) ==
    IF IsErrorWithMessage(e) THEN e.text ELSE JsonStringify(e)

GetErrorMessage(e) == ToErrorWithMessage(e)

ServiceUnavailable == "The AI service is currently unavailable. Please try again later."

NetworkError == "Network error. Please check your internet connection and try again."

TimedOut == "The request timed out. Please try again."

TooManyRequests == "Too many requests. Please wait a moment and try again."

SomethingWentWrong == "Something went wrong. Please try again later."

\* Mutant of GetUserFriendlyErrorMessage: 'network' is looked for first.
GetUserFriendlyErrorMessageNetworkFirst(e) ==
    LET message == GetErrorMessage(e)
    IN  IF Includes(message, <<"n", "e", "t", "w", "o", "r", "k">>) THEN NetworkError
        ELSE IF Includes(message, <<"O", "p", "e", "n", "A", "I", " ", "A", "P", "I">>)
        THEN ServiceUnavailable
        ELSE IF Includes(message, <<"t", "i", "m", "e", "o", "u", "t">>) THEN TimedOut
        ELSE IF Includes(message, <<"r", "a", "t", "e", " ", "l", "i", "m", "i", "t">>)
        THEN TooManyRequests
        ELSE SomethingWentWrong

GetUserFriendlyErrorMessage(e) ==
    LET message == GetErrorMessage(e)
    IN  IF Includes(message, <<"O", "p", "e", "n", "A", "I", " ", "A", "P", "I">>)
        THEN ServiceUnavailable
        ELSE IF Includes(message, <<"n", "e", "t", "w", "o", "r", "k">>) THEN NetworkError
        ELSE IF Includes(message, <<"t", "i", "m", "e", "o", "u", "t">>) THEN TimedOut
        ELSE IF Includes(message, <<"r", "a", "t", "e", " ", "l", "i", "m", "i", "t">>)
        THEN TooManyRequests
        ELSE SomethingWentWrong

\* An error is thrown and the page asks for its user-friendly message.
InitFriendly ==
    /\ HandlersInit
    /\ chats = {}
    /\ apiKey
    /\ ui = UiInit
    /\ fetched = NoFetch
    /\ reader = NoReader
    /\ home = HomeInit
    /\ \E e \in Thrown : friendly = [kind |-> e.kind, text |-> e.text, result |-> "none"]

GetFriendly ==
    /\ friendly.result = "none"
    /\ friendly' = [friendly EXCEPT !.result = GetUserFriendlyErrorMessage(friendly)]
    /\ UNCHANGED <<pc, req, turnVars, chats, messages, apiKey, imageUrl, ui, sideVars>>

NextFriendly == GetFriendly

SpecFriendly == InitFriendly /\ [][NextFriendly]_vars

(***************************************************************************)
(* Vocabulary of the properties.                                           *)
(***************************************************************************)
RECURSIVE Concat(_)
\* The strings of a sequence joined in order.
Concat(ss) == IF ss = <<>> THEN <<>> ELSE Head(ss) \o Concat(Tail(ss))

\* The chunks that carry content.
WithContent(chunks) == SelectSeq(chunks, LAMBDA c : c # <<>>)

\* The content carried by the content events of a stream, in order.
Forwarded(s) ==
    LET ce == SelectSeq(s.events, LAMBDA e : e.key = "content")
    IN  [i \in 1..Len(ce) |-> ce[i].content]

IsPrefix(p, q) == Len(p) <= Len(q) /\ \A i \in 1..Len(p) : p[i] = q[i]

Has(t, call) == \E i \in 1..Len(trace[t]) : trace[t][i] = call

\* What a call of the turn returned: the trace entry after the call.
Outcome(t, call) ==
    IF \E i \in 1..(Len(trace[t]) - 1) : trace[t][i] = call
    THEN trace[t][(CHOOSE i \in 1..(Len(trace[t]) - 1) : trace[t][i] = call) + 1]
    ELSE "none"

\* Call a comes before call b in the trace of the turn.
Before(t, a, b) ==
    \E i, j \in 1..Len(trace[t]) : i < j /\ trace[t][i] = a /\ trace[t][j] = b

ChatsBy(t) == { c \in chats : c.by = t }

RowsBy(t, role) == SelectSeq(messages, LAMBDA m : m.by = t /\ m.role = role)

IsChat(t) == req[t].relay = "chat"

\* The handler answered with a streamed body.
Streams(t) == stream[t].state # "none"

(***************************************************************************)
(* C1.  An upstream failure after streaming began never leaves an          *)
(* assistant Message: every assistant row a turn wrote belongs to a turn   *)
(* whose upstream stream completed, and holds the whole reply.             *)
(***************************************************************************)
C1_NoPartialAssistantMessage ==
    \A t \in Turns :
        \A i \in 1..Len(messages) :
            (/\ messages[i].by = t /\ messages[i].role = "assistant"
             /\ messages[i].message_type = "text")
                => /\ upstreamEnd[t] = "done"
                   /\ messages[i].content = Concat(upstream[t])

C1_Witness ==
    \E t \in Turns :
        /\ IsChat(t) /\ pc[t] = "done"
        /\ upstreamEnd[t] = "thrown"
        /\ fullResponse[t] # <<>>
        /\ Len(RowsBy(t, "user")) = 1
        /\ RowsBy(t, "assistant") = <<>>

(***************************************************************************)
(* C2.  When the upstream throws after chunks with content were received   *)
(* and the client is still connected, the client stream holds exactly      *)
(* those content events followed by one error event, and no done marker.   *)
(***************************************************************************)
C2_ErrorEventAfterChunks ==
    \A t \in Turns :
        (/\ pc[t] = "done" /\ upstreamEnd[t] = "thrown"
         /\ WithContent(upstream[t]) # <<>>
         /\ ~stream[t].cancelled)
            => LET n == Len(WithContent(upstream[t]))
                   ev == stream[t].events
               IN  /\ Len(ev) = n + 1
                   /\ \A i \in 1..n : /\ ev[i].key = "content"
                                      /\ ev[i].content = WithContent(upstream[t])[i]
                   /\ ev[n + 1].key = "error"

(***************************************************************************)
(* C3, as stated.  Every chunk received from upstream is forwarded as its  *)
(* own event, in order: the stream holds one content event per chunk       *)
(* received.                                                               *)
(***************************************************************************)
C3_EveryChunkForwarded ==
    \A t \in Turns : Streams(t) => Forwarded(stream[t]) = upstream[t]

(***************************************************************************)
(* C3, amended.  Every chunk with content received while the client        *)
(* stream is open is forwarded as its own event before the next chunk is   *)
(* read, in the order received; chunks without content produce no event;   *)
(* once the client is gone the first chunk with content ends the loop and  *)
(* is the only one not forwarded.                                          *)
(***************************************************************************)
C3_ContentChunksForwardedInOrder ==
    \A t \in Turns :
        Streams(t) =>
            LET sent == WithContent(upstream[t])
                fwd == Forwarded(stream[t])
            IN  /\ IsPrefix(fwd, sent)
                /\ ~stream[t].cancelled => fwd = sent
                /\ Len(sent) - Len(fwd) <= 1
                /\ Len(sent) > Len(fwd) => pc[t] = "done"

C3_Witness ==
    \E t \in Turns :
        /\ req[t].relay = "edge"
        /\ upstream[t] = << <<"a">>, <<>>, <<"b">> >>
        /\ Forwarded(stream[t]) = << <<"a">>, <<"b">> >>
        /\ Len(stream[t].events) = 2

(***************************************************************************)
(* C4, as stated.  A turn of the chat route that was answered with a       *)
(* stream has written, when it ends: one Chat row if chatId was absent and *)
(* none if it was supplied, exactly one user Message row, and one          *)
(* assistant Message row if the upstream stream completed, none if not.    *)
(***************************************************************************)
C4_ExactRows ==
    \A t \in Turns :
        (IsChat(t) /\ pc[t] = "done" /\ Streams(t))
            => /\ Cardinality(ChatsBy(t)) = (IF req[t].chatId = 0 THEN 1 ELSE 0)
               /\ Len(RowsBy(t, "user")) = 1
               /\ Len(RowsBy(t, "assistant")) =
                      (IF upstreamEnd[t] = "done" THEN 1 ELSE 0)

(***************************************************************************)
(* C4, amended.  A turn of the chat route that passed validation has       *)
(* written, when it ends: one Chat row if chatId was absent and the chat   *)
(* insert succeeded, else none; one user Message row if the user-message   *)
(* insert succeeded, else none; one assistant Message row if the upstream  *)
(* stream was read to its end and the assistant-message insert succeeded,  *)
(* else none; every row carries the chat identifier of the turn.  A turn   *)
(* without chatId that was answered with a stream created exactly one      *)
(* Chat, and left two Message rows only when both inserts succeeded and    *)
(* the upstream completed.                                                 *)
(***************************************************************************)
C4_RowsFollowOutcomes ==
    \A t \in Turns :
        (IsChat(t) /\ pc[t] = "done" /\ req[t].json /\ ChatValid(req[t]))
            => /\ Cardinality(ChatsBy(t)) =
                      (IF req[t].chatId = 0 /\ Outcome(t, "insert chat") = "ok"
                       THEN 1 ELSE 0)
               /\ Len(RowsBy(t, "user")) =
                      (IF Outcome(t, "insert user") = "ok" THEN 1 ELSE 0)
               /\ Len(RowsBy(t, "assistant")) =
                      (IF upstreamEnd[t] = "done"
                          /\ Outcome(t, "insert assistant") = "ok"
                       THEN 1 ELSE 0)
               /\ \A i \in 1..Len(messages) :
                      messages[i].by = t => messages[i].chat_id = currentChatId[t]
               /\ (Streams(t) /\ req[t].chatId = 0)
                      => /\ Cardinality(ChatsBy(t)) = 1
                         /\ \A c \in ChatsBy(t) : c.id = currentChatId[t]

C4_Witness ==
    \E t \in Turns :
        /\ IsChat(t) /\ pc[t] = "done"
        /\ req[t].chatId = 0 /\ Len(req[t].messages) = 1
        /\ Cardinality(ChatsBy(t)) = 1
        /\ Len(RowsBy(t, "user")) = 1
        /\ Len(RowsBy(t, "assistant")) = 1
        /\ stream[t].state = "closed" /\ ~stream[t].cancelled

(***************************************************************************)
(* C5.  Every streamed response of a request that came without chatId      *)
(* carries in a header the identifier of a Chat the turn created before    *)
(* the provider was called.                                                *)
(***************************************************************************)
C5_ChatIdHeaderOnNewConversation ==
    \A t \in Turns :
        (Streams(t) /\ req[t].chatId = 0)
            => /\ response[t].chatIdHeader # 0
               /\ \E c \in ChatsBy(t) : c.id = response[t].chatIdHeader
               /\ Before(t, "insert chat", "create")

(***************************************************************************)
(* C6.  A client disconnect does not keep the chat route from reading the  *)
(* upstream stream to its end and, when it completed, from issuing the     *)
(* assistant-message insert.                                               *)
(***************************************************************************)
C6_DisconnectStillPersists ==
    \A t \in Turns :
        (IsChat(t) /\ pc[t] = "done" /\ stream[t].cancelled)
            => /\ upstreamEnd[t] \in {"done", "thrown"}
               /\ upstreamEnd[t] = "done" => Has(t, "insert assistant")

(***************************************************************************)
(* C7.  A request with missing or malformed fields is answered 4xx, with   *)
(* no provider call and no Chat or Message row written.                    *)
(***************************************************************************)
Malformed(r) ==
    /\ r.method = "POST"
    /\ \/ ~r.json
       \/ r.relay = "chat" /\ (r.messagesKind # "array" \/ r.messages = <<>>)
       \/ r.relay \in {"edge", "proxy"} /\ r.messageKind # "string"

C7_MalformedRejected4xx ==
    \A t \in Turns :
        (pc[t] = "done" /\ Malformed(req[t]))
            => /\ response[t].status \in 400..499
               /\ ~Has(t, "create")
               /\ ChatsBy(t) = {}
               /\ \A i \in 1..Len(messages) : messages[i].by # t

(***************************************************************************)
(* C8.  A user-message insert that returns an error does not abort the     *)
(* turn: the provider is still called, with the messages of the request,   *)
(* and the answer is the stream unless the provider call itself throws.    *)
(***************************************************************************)
C8_UserWriteErrorNotFatal ==
    \A t \in Turns :
        (IsChat(t) /\ Outcome(t, "insert user") = "error")
            => /\ pc[t] = "done" => Has(t, "create")
               /\ Has(t, "create") => providerArgs[t] = ChatProviderMessages(req[t])
               /\ Outcome(t, "create") = "ok"
                      => /\ response[t].status = 200
                         /\ Forwarded(stream[t]) = WithContent(upstream[t])
                                \/ stream[t].cancelled
               /\ response[t].status # 0
                      => (response[t].status = 200 <=> Outcome(t, "create") = "ok")

C8_Witness ==
    \E t \in Turns :
        /\ IsChat(t) /\ pc[t] = "done"
        /\ Outcome(t, "insert user") = "error"
        /\ RowsBy(t, "user") = <<>>
        /\ stream[t].state = "closed" /\ ~stream[t].cancelled
        /\ Len(stream[t].events) = 2

(***************************************************************************)
(* C9.  A failed assistant-message insert, returned or thrown, is not      *)
(* visible to a connected client: the stream has carried every chunk and   *)
(* ends closed, not errored.                                               *)
(***************************************************************************)
C9_AssistantWriteFailureInvisible ==
    \A t \in Turns :
        (/\ IsChat(t) /\ pc[t] = "done" /\ upstreamEnd[t] = "done"
         /\ Outcome(t, "insert assistant") \in {"error", "throw"}
         /\ ~stream[t].cancelled)
            => /\ stream[t].state = "closed"
               /\ Forwarded(stream[t]) = WithContent(upstream[t])

(***************************************************************************)
(* C10.  On upstream completion the chat route issues the insert of one    *)
(* Message (role assistant, kind text, content the accumulator), and the   *)
(* stream is closed only after that insert has returned.                   *)
(***************************************************************************)
C10_PersistThenClose ==
    \A t \in Turns :
        IsChat(t) =>
            /\ upstreamEnd[t] = "done" => Has(t, "insert assistant")
            /\ (stream[t].state = "closed" /\ ~stream[t].cancelled)
                   => /\ Has(t, "controller.close")
                      /\ Outcome(t, "insert assistant") \in {"ok", "error"}
            /\ Has(t, "controller.close")
                   => /\ Before(t, "insert assistant", "controller.close")
                      /\ ~Before(t, "controller.close", "insert assistant")
                      /\ trace[t][Len(trace[t])] = "controller.close"
            /\ \A i \in 1..Len(messages) :
                   (messages[i].by = t /\ messages[i].role = "assistant")
                       => /\ messages[i].message_type = "text"
                          /\ messages[i].content = fullResponse[t]
                          /\ messages[i].chat_id = currentChatId[t]
                          /\ Len(RowsBy(t, "assistant")) = 1

C10_Witness ==
    \E t \in Turns :
        /\ IsChat(t) /\ pc[t] = "done"
        /\ stream[t].state = "closed" /\ ~stream[t].cancelled
        /\ Len(RowsBy(t, "assistant")) = 1
        /\ RowsBy(t, "assistant")[1].content = <<"a", "b">>

Terminal(e) == e.key \in {"done", "error"}

C12_OneTerminalEventLast ==
    \A t \in Turns :
        (Streams(t) /\ pc[t] = "done" /\ ~stream[t].cancelled)
            => LET ev == stream[t].events
               IN  /\ ev # <<>>
                   /\ Terminal(ev[Len(ev)])
                   /\ \A i \in 1..(Len(ev) - 1) : ~Terminal(ev[i])

\* The provider failed for the turn: the create call threw, or the iteration
\* of its stream did.
GenerationFailed(t) ==
    Outcome(t, "create") = "throw" \/ upstreamEnd[t] = "thrown"

\* The Chat UI shows its error message.
UiShowsError ==
    \E i \in 1..Len(ui.messages) : ui.messages[i].content = SorryText

\* C13: when the generation of the turn the Chat UI is showing has failed,
\* before the stream or in the middle of it, the UI has an error message on
\* screen once the turn is over.
C13_UiShowsErrorOnFailure ==
    \A t \in Turns :
        (ui.turn = t /\ ui.phase = "finished" /\ GenerationFailed(t))
            => UiShowsError

IsImage(t) == req[t].relay = "image"

\* C14: on the image route, when the provider call throws or returns no URL
\* the turn writes no assistant row and ends with a non-2xx JSON error; a
\* 2xx response carries a non-empty imageUrl; a parsed body without a string
\* prompt or without a chatId makes no call and no write and ends with 400.
C14_GenerateImageAtomic ==
    \A t \in Turns :
        IsImage(t) =>
            /\ Outcome(t, "generate") \in {"throw", "nourl"}
                   => /\ RowsBy(t, "assistant") = <<>>
                      /\ pc[t] = "done"
                      /\ ~Ok(response[t])
                      /\ response[t].type = "json"
                      /\ response[t].error # ""
            /\ Ok(response[t]) => response[t].imageUrl # <<>>
            /\ (/\ req[t].json
                /\ \/ req[t].promptKind \in {"absent", "nonString"}
                   \/ req[t].chatId = 0)
                   => /\ trace[t] = <<>>
                      /\ RowsBy(t, "user") = <<>> /\ RowsBy(t, "assistant") = <<>>
                      /\ pc[t] = "done" => response[t].status = 400

C14_Witness ==
    \E t \in Turns :
        /\ IsImage(t) /\ pc[t] = "done"
        /\ Outcome(t, "generate") = "nourl"
        /\ response[t].status = 500
        /\ Len(RowsBy(t, "user")) = 1

\* C15 as stated: an image turn with a valid prompt and the id of an
\* existing chat, on which the provider returned a URL, answers {imageUrl}
\* and has written exactly one user row and one assistant row.
C15_ExactlyTwoMessages ==
    \A t \in Turns :
        (/\ IsImage(t) /\ pc[t] = "done"
         /\ req[t].chatId \in ChatIds
         /\ Outcome(t, "generate") = "ok")
            => /\ Ok(response[t]) /\ response[t].imageUrl = Url
               /\ Len(RowsBy(t, "user")) = 1
               /\ Len(RowsBy(t, "assistant")) = 1

\* C15: an image turn on which the provider returned a URL has issued the
\* user insert before the provider call; it has written the user row
\* (kind image, content the prompt) exactly when that insert succeeded and
\* the assistant row (kind image, image reference the URL) exactly when that
\* insert succeeded; it answers {imageUrl} with the URL unless the assistant
\* insert threw, and then it answers 500.
C15_ImageRowsFollowOutcomes ==
    \A t \in Turns :
        (/\ IsImage(t) /\ pc[t] = "done"
         /\ Outcome(t, "generate") = "ok")
            => LET u == RowsBy(t, "user")
                   a == RowsBy(t, "assistant")
               IN  /\ Before(t, "insert user", "generate")
                   /\ Len(u) = IF Outcome(t, "insert user") = "ok" THEN 1 ELSE 0
                   /\ Len(a) = IF Outcome(t, "insert assistant") = "ok" THEN 1 ELSE 0
                   /\ \A i \in 1..Len(u) :
                          /\ u[i].message_type = "image"
                          /\ u[i].content = req[t].prompt
                          /\ u[i].chat_id = req[t].chatId
                          /\ u[i].image_url = <<>>
                   /\ \A i \in 1..Len(a) :
                          /\ a[i].message_type = "image"
                          /\ a[i].image_url = Url
                          /\ a[i].chat_id = req[t].chatId
                          /\ u # <<>> => u[1].id < a[i].id
                   /\ IF Outcome(t, "insert assistant") = "throw"
                      THEN response[t].status = 500
                      ELSE response[t].status = 200 /\ response[t].imageUrl = Url

C15_Witness ==
    \E t \in Turns :
        /\ IsImage(t) /\ pc[t] = "done"
        /\ response[t].status = 200 /\ response[t].imageUrl = Url
        /\ Len(RowsBy(t, "user")) = 1 /\ Len(RowsBy(t, "assistant")) = 1
        /\ RowsBy(t, "assistant")[1].image_url = Url
        /\ req[t].chatId \in ChatIds

\* C16: with turns running concurrently, each turn forwards the content of
\* its own upstream chunks and nothing else, accumulates exactly its own
\* chunks, stores its own user message and its own reply under its own chat,
\* and two new conversations get two different chats.
C16_TurnsShareNothing ==
    \A t \in Turns :
        /\ Streams(t) => Forwarded(stream[t]) = WithContent(upstream[t])
        /\ IsChat(t) => fullResponse[t] = Concat(upstream[t])
        /\ \A i \in 1..Len(messages) :
               messages[i].by = t
                   => /\ messages[i].chat_id = currentChatId[t]
                      /\ messages[i].content =
                             IF messages[i].role = "user" THEN Hello
                             ELSE Concat(upstream[t])
        /\ Len(RowsBy(t, "user")) <= 1 /\ Len(RowsBy(t, "assistant")) <= 1
        /\ \A u \in Turns \ {t} :
               (ChatsBy(t) # {} /\ ChatsBy(u) # {})
                   => currentChatId[t] # currentChatId[u]

\* Two turns of the same chat were in their loops together and each stored
\* its own reply.
C16_Witness ==
    /\ \A t \in Turns : IsChat(t) /\ pc[t] = "done" /\ currentChatId[t] = 1
    /\ upstream[1] = << <<"a">> >> /\ upstream[2] = << <<"b">>, <<"a">> >>
    /\ Len(messages) = 6
    /\ messages[3].role = "user" /\ messages[4].role = "user"
    /\ messages[5].by = 2 /\ messages[5].content = <<"b", "a">>
    /\ messages[6].by = 1 /\ messages[6].content = <<"a">>

\* C17: in every reachable state every message row references a chat row
\* that exists, also when the chat id came from the client; and every step
\* only appends: the rows written stay as they are and in place, and no
\* chat row goes away.
C17_MessagesReferenceChatsAppendOnly ==
    /\ [](\A i \in 1..Len(messages) : messages[i].chat_id \in ChatIds)
    /\ [][IsPrefix(messages, messages') /\ chats \subseteq chats']_vars

\* A turn whose client supplied the id of no chat has run to its end: both
\* inserts were refused and nothing was written.
C17_Witness ==
    \E t \in Turns :
        /\ IsChat(t) /\ pc[t] = "done" /\ upstreamEnd[t] = "done"
        /\ req[t].chatId = 1 /\ chats = {}
        /\ Outcome(t, "insert user") = "error"
        /\ Outcome(t, "insert assistant") = "error"
        /\ messages = <<>>

\* C18: for every message row a turn has written, the last-updated time of
\* its chat is not earlier than the creation time of the row.
C18_MessageWriteAdvancesUpdatedAt ==
    \A i \in 1..Len(messages) :
        messages[i].by \in Turns
            => \E c \in chats :
                   /\ c.id = messages[i].chat_id
                   /\ c.updated_at >= messages[i].created_at

\* C19: in a turn of the chat route or of the image route, whenever the
\* provider has been called, the insert of the user message was issued, and
\* had returned, before that call.
C19_UserWriteBeforeProviderCall ==
    \A t \in Turns :
        /\ (IsChat(t) /\ Has(t, "create"))
               => /\ Before(t, "insert user", "create")
                  /\ Outcome(t, "insert user") \in {"ok", "error"}
        /\ (IsImage(t) /\ Has(t, "generate"))
               => /\ Before(t, "insert user", "generate")
                  /\ Outcome(t, "insert user") \in {"ok", "error"}

\* The image provider was called after the store had refused the user row.
C19_Witness ==
    \E t \in Turns :
        /\ IsImage(t)
        /\ Outcome(t, "generate") = "ok"
        /\ Outcome(t, "insert user") = "error"
        /\ trace[t][1] = "insert user"

C23_FailureBeforeStreamIsJsonError ==
    \A t \in Turns :
        (\/ Outcome(t, "create") = "throw"
         \/ /\ pc[t] = "done"
            /\ req[t].relay \in {"edge", "proxy"} /\ req[t].method = "POST"
            /\ ~apiKey)
            => /\ pc[t] = "done"
               /\ response[t].status # 0 /\ ~Ok(response[t])
               /\ response[t].type = "json" /\ response[t].error # ""
               /\ stream[t] = NoStream
               /\ upstream[t] = <<>>
               /\ RowsBy(t, "assistant") = <<>>

\* The provider refused the create call of an edge turn: 500, no stream.
C23_Witness ==
    \E t \in Turns :
        /\ req[t].relay = "edge"
        /\ Outcome(t, "create") = "throw"
        /\ response[t].status = 500
        /\ stream[t] = NoStream

IsProxy(t) == req[t].relay = "proxy"

\* The events the edge function makes of the chunks it has read and of the
\* way its upstream ended.
EdgeEventsOf(t) ==
    LET sent == WithContent(upstream[t])
    IN  [i \in 1..Len(sent) |-> ContentEvent(sent[i])]
            \o (IF upstreamEnd[t] = "done" THEN <<DoneEvent>>
                ELSE IF upstreamEnd[t] = "thrown" THEN <<ErrorEvent>>
                ELSE <<>>)

\* C30: through the proxy route, a 2xx answer carries exactly the events of
\* the edge function, in their order (a prefix of them once the client has
\* gone away); every other turn that is over has been answered with the 500
\* JSON error of the proxy and has no stream.
C30_ProxyTransparentOrClosed ==
    \A t \in Turns :
        (IsProxy(t) /\ response[t].status # 0)
            => IF Ok(response[t])
               THEN /\ Streams(t)
                    /\ response[t] = EdgeStreamResponse
                    /\ IsPrefix(stream[t].events, EdgeEventsOf(t))
                    /\ ~stream[t].cancelled => stream[t].events = EdgeEventsOf(t)
               ELSE /\ response[t] = JsonResponse(500, "Internal server error")
                    /\ stream[t] = NoStream

\* The edge function answered 400 to a body without a message; the client
\* of the proxy got 500.
C30_Witness ==
    \E t \in Turns :
        /\ IsProxy(t) /\ pc[t] = "done"
        /\ req[t].json /\ req[t].messageKind = "absent"
        /\ response[t].status = 500

\* The client stream has been closed or errored.
Ended(t) == stream[t].state \in {"closed", "errored"}

\* C25: once a turn has a client stream, the stream is eventually closed or
\* errored; and once it is, it never changes again: it is not reopened, it
\* does not go from closed to errored or back, and nothing more is enqueued.
C25_ClientStreamEndsOnce ==
    /\ \A t \in Turns : Streams(t) ~> Ended(t)
    /\ [][\A t \in Turns :
              Ended(t) => /\ stream'[t].state = stream[t].state
                          /\ stream'[t].events = stream[t].events]_vars

\* A stream that carried two chunks was closed by its handler.
C25_Witness ==
    \E t \in Turns :
        /\ pc[t] = "done" /\ stream[t].state = "closed" /\ ~stream[t].cancelled
        /\ Len(WithContent(upstream[t])) = 2
        /\ Len(Forwarded(stream[t])) = 2

\* C21: a history that was fetched lists rows of the chat asked for only,
\* each row the store held for that chat at the time of the fetch exactly
\* once, in ascending order of creation time, whatever order the scan of the
\* table yielded them in.
C21_HistoryAscendingAndOwn ==
    fetched.status = "ok"
        => LET r == fetched.rows
               held == { i \in 1..fetched.at : messages[i].chat_id = fetched.chatId }
           IN  /\ \A j \in 1..Len(r) : r[j].chat_id = fetched.chatId
               /\ \A j, k \in 1..Len(r) : j < k => r[j].created_at < r[k].created_at
               /\ \A i \in held : \E j \in 1..Len(r) : r[j].id = messages[i].id
               /\ Len(r) = Cardinality(held)

\* Three rows of chat 1 were fetched between the two writes of a turn, with
\* the fourth row written afterwards.
C21_Witness ==
    /\ fetched.status = "ok" /\ fetched.chatId = 1
    /\ Len(fetched.rows) = 3
    /\ fetched.rows[1].created_at < fetched.rows[2].created_at
    /\ fetched.rows[2].created_at < fetched.rows[3].created_at
    /\ Len(messages) = 4

\* What a turn hands to the insert of its row of role `role`.
Persisted(t, role) ==
    [role |-> role,
     message_type |-> IF IsImage(t) THEN "image" ELSE "text",
     content |-> IF IsImage(t)
                 THEN IF role = "user" THEN req[t].prompt ELSE Caption(req[t].prompt)
                 ELSE IF role = "user"
                      THEN req[t].messages[Len(req[t].messages)].content
                      ELSE Concat(upstream[t]),
     image_url |-> IF IsImage(t) /\ role = "assistant" THEN Url ELSE <<>>]

\* C22: every row a turn has persisted for the chat whose history was then
\* fetched is in that history with the role, kind, content and image URL the
\* turn handed to the insert; rows of kind text come back without image URL.
C22_PersistThenFetchRoundTrip ==
    fetched.status = "ok"
        => /\ \A i \in 1..fetched.at :
                  (messages[i].by \in Turns /\ messages[i].chat_id = fetched.chatId)
                      => \E j \in 1..Len(fetched.rows) :
                             LET m == fetched.rows[j]
                                 p == Persisted(messages[i].by, messages[i].role)
                             IN  /\ m.id = messages[i].id
                                 /\ m.role = p.role
                                 /\ m.message_type = p.message_type
                                 /\ m.content = p.content
                                 /\ m.image_url = p.image_url
           /\ \A j \in 1..Len(fetched.rows) :
                  fetched.rows[j].message_type = "text"
                      => fetched.rows[j].image_url = <<>>

\* The history holds the two rows of an image turn, the assistant's with
\* the URL.
C22_Witness ==
    /\ fetched.status = "ok"
    /\ \E j, k \in 1..Len(fetched.rows) :
           /\ fetched.rows[j].role = "user" /\ fetched.rows[j].message_type = "image"
           /\ fetched.rows[j].content = Bicycle /\ fetched.rows[j].image_url = <<>>
           /\ fetched.rows[k].role = "assistant"
           /\ fetched.rows[k].message_type = "image"
           /\ fetched.rows[k].image_url = Url

\* C24: every image request the Chat UI has issued carries the id of a chat
\* that exists, and is not answered 'Chat ID is required'.
C24_UiImageRequestCarriesChatId ==
    \A t \in Turns :
        (ui.turn = t /\ IsImage(t))
            => /\ req[t].chatId \in ChatIds
               /\ response[t].error # "Chat ID is required"

\* The user messages the page shows.
UiUserMessages(u) == SelectSeq(u.messages, LAMBDA m : m.role = "user")

\* C27: while the page is loading, no step sends a request or adds a user
\* message; a submit with a blank input never does; and loading always ends,
\* whether the turn succeeds or throws, unless the page itself has gone
\* away in the middle of the stream.
C27_OneTurnInFlightAndUnlocked ==
    /\ [][ui.isLoading
              => /\ req' = req
                 /\ UiUserMessages(ui') = UiUserMessages(ui)]_vars
    /\ [][ui'.ignored # ui.ignored
              => /\ req' = req /\ pc' = pc
                 /\ ui'.messages = ui.messages
                 /\ ui'.isLoading = ui.isLoading]_vars
    /\ [](ui.phase = "finished" => ~ui.isLoading)
    /\ ui.isLoading ~> (~ui.isLoading \/ \E t \in Turns : stream[t].cancelled)

\* A turn of the page threw, the error message is shown, loading has ended,
\* and a submit made while it was loading was ignored.
C27_Witness ==
    /\ ui.phase = "finished" /\ ~ui.isLoading
    /\ UiShowsError
    /\ ui.ignored = "loading"
    /\ Len(UiUserMessages(ui)) = 1

\* C29: every message in the page's list has an id of its own.
C29_UiMessageIdsDistinct ==
    \A i, j \in 1..Len(ui.messages) :
        ui.messages[i].id = ui.messages[j].id => i = j

(***************************************************************************)
(* The read loop of handleTextStream, byte by byte (page.tsx 97-131), over *)
(* the body the edge function writes (index.ts 57-83).                     *)
(***************************************************************************)
MaxEvents == 2

\* delta.content values the provider may send: a letter, a line break and a
\* two-byte character; a quote and a backslash.
ReaderContents == {<<"a", "\n", "é">>, <<"\"", "\\">>}

\* The two bytes of the character é in UTF-8 (0xC3 0xA9).
Lead == "C3"

Cont == "A9"

\* What the decoder puts in place of a malformed byte (U+FFFD).
Replacement == "FFFD"

RECURSIVE Utf8Encode(_)
\* encoder.encode(data)
Utf8Encode(chars) ==
    IF chars = <<>> THEN <<>>
    ELSE (IF Head(chars) = "é" THEN <<Lead, Cont>> ELSE <<Head(chars)>>)
             \o Utf8Encode(Tail(chars))

\* The text of a run of bytes and the incomplete character at its end: a
\* lead byte and the continuation byte after it make one character, a lead
\* byte at the end is kept, any other lead or continuation byte is
\* malformed.
Utf8Decode(b) ==
    LET held == b # <<>> /\ b[Len(b)] = Lead
        m    == IF held THEN Len(b) - 1 ELSE Len(b)
        char(i) ==
            IF b[i] = Lead
            THEN IF i < m /\ b[i + 1] = Cont THEN "é" ELSE Replacement
            ELSE IF b[i] = Cont
                 THEN IF i > 1 /\ b[i - 1] = Lead THEN "" ELSE Replacement
                 ELSE b[i]
    IN  [text |-> SelectSeq([i \in 1..m |-> char(i)], LAMBDA c : c # ""),
         pending |-> IF held THEN <<Lead>> ELSE <<>>]

\* Mutant of DecodeStream: every read is decoded on its own.
DecodeAlone(pending, value) ==
    LET d == Utf8Decode(value)
    IN  [text |-> d.text \o (IF d.pending = <<>> THEN <<>> ELSE <<Replacement>>),
         pending |-> <<>>]

\* decoder.decode(value, { stream: true }): bytes of an incomplete character
\* are kept for the next call.
DecodeStream(pending, value) == Utf8Decode(pending \o value)

\* The key of the objects that carry content.
KeyContent == <<"c", "o", "n", "t", "e", "n", "t">>

JsonTrue == <<"t", "r", "u", "e">>

DataPrefix == <<"d", "a", "t", "a", ":", " ">>

RECURSIVE JsonEscape(_)
\* The characters of a string as JSON.stringify writes them.
JsonEscape(chars) ==
    IF chars = <<>> THEN <<>>
    ELSE (CASE Head(chars) = "\"" -> <<"\\", "\"">>
            [] Head(chars) = "\\" -> <<"\\", "\\">>
            [] Head(chars) = "\n" -> <<"\\", "n">>
            [] OTHER -> <<Head(chars)>>)
             \o JsonEscape(Tail(chars))

JsonString(chars) == <<"\"">> \o JsonEscape(chars) \o <<"\"">>

\* JSON.stringify({ content }), JSON.stringify({ done: true }),
\* JSON.stringify({ error: 'Streaming failed' })
JsonStringifyEvent(e) ==
    <<"{">>
        \o (CASE e.key = "content" -> JsonString(KeyContent) \o <<":">>
                                          \o JsonString(e.content)
              [] e.key = "done" -> JsonString(<<"d", "o", "n", "e">>) \o <<":">>
                                       \o JsonTrue
              [] OTHER -> JsonString(<<"e", "r", "r", "o", "r">>) \o <<":">>
                              \o JsonString(<<"S", "t", "r", "e", "a", "m", "i",
                                               "n", "g", " ", "f", "a", "i", "l",
                                               "e", "d">>))
        \o <<"}">>

\* `data: ${JSON.stringify(...)}\n\n`
SseData(e) == DataPrefix \o JsonStringifyEvent(e) \o <<"\n", "\n">>

\* The bytes of a body: each event encoded and enqueued in order.
Wire(events) == Concat([i \in 1..Len(events) |-> Utf8Encode(SseData(events[i]))])

\* The first place at or after `from` where ch stands in s, or 0.
IndexOf(s, ch, from) ==
    IF \E i \in from..Len(s) : s[i] = ch
    THEN CHOOSE i \in from..Len(s) :
             s[i] = ch /\ \A j \in from..(i - 1) : s[j] # ch
    ELSE 0

RECURSIVE JsonParseString(_)
\* A JSON string after its opening quote: its value and what follows its
\* closing quote. A raw line break and an unknown escape are syntax errors.
JsonParseString(s) ==
    IF s = <<>> \/ Head(s) = "\n" THEN [ok |-> FALSE, value |-> <<>>, rest |-> <<>>]
    ELSE IF Head(s) = "\"" THEN [ok |-> TRUE, value |-> <<>>, rest |-> Tail(s)]
    ELSE IF Head(s) = "\\"
         THEN IF Len(s) >= 2 /\ s[2] \in {"\"", "\\", "n"}
              THEN LET r == JsonParseString(Tail(Tail(s)))
                   IN  [r EXCEPT !.value = <<IF s[2] = "n" THEN "\n" ELSE s[2]>> \o @]
              ELSE [ok |-> FALSE, value |-> <<>>, rest |-> <<>>]
    ELSE LET r == JsonParseString(Tail(s))
         IN  [r EXCEPT !.value = <<Head(s)>> \o @]

JsonSyntaxError == [ok |-> FALSE, key |-> <<>>, kind |-> "none", value |-> <<>>]

\* JSON.parse of the text of an object with one key, whose value is a
\* string or true; ok is FALSE where JSON.parse throws.
JsonParse(s) ==
    IF Len(s) < 2 \/ s[1] # "{" \/ s[2] # "\"" THEN JsonSyntaxError
    ELSE LET k == JsonParseString(SubSeq(s, 3, Len(s)))
         IN  IF ~k.ok \/ k.rest = <<>> \/ Head(k.rest) # ":" THEN JsonSyntaxError
             ELSE LET v == Tail(k.rest)
                  IN  IF v = JsonTrue \o <<"}">>
                      THEN [ok |-> TRUE, key |-> k.value, kind |-> "true",
                            value |-> <<>>]
                      ELSE IF v # <<>> /\ Head(v) = "\""
                           THEN LET str == JsonParseString(Tail(v))
                                IN  IF str.ok /\ str.rest = <<"}">>
                                    THEN [ok |-> TRUE, key |-> k.value,
                                          kind |-> "string", value |-> str.value]
                                    ELSE JsonSyntaxError
                           ELSE JsonSyntaxError

RECURSIVE Split(_)
\* buffer.split('\n')
Split(s) ==
    LET i == IndexOf(s, "\n", 1)
    IN  IF i = 0 THEN <<s>>
        ELSE <<SubSeq(s, 1, i - 1)>> \o Split(SubSeq(s, i + 1, Len(s)))

\* Mutant of Popped: the text after the last line break is dropped.
PoppedAndDropped(lines) == <<>>

\* buffer = lines.pop() || ''
Popped(lines) == lines[Len(lines)]

\* The body of the for loop: what one line adds to the assistant message.
LineContent(line) ==
    IF Len(line) >= 6 /\ SubSeq(line, 1, 6) = DataPrefix
    THEN LET data == JsonParse(SubSeq(line, 7, Len(line)))
         IN  IF data.ok /\ data.key = KeyContent /\ data.kind = "string"
             THEN data.value
             ELSE <<>>
    ELSE <<>>

\* Bodies the edge function writes: content events, then the end signal or
\* the error event.
ReaderBodies ==
    { cs \o <<last>> :
        cs \in UNION { [1..n -> { ContentEvent(c) : c \in ReaderContents }] :
                          n \in 0..MaxEvents },
        last \in {DoneEvent, ErrorEvent} }

InitReader ==
    /\ HandlersInit
    /\ chats = {}
    /\ apiKey
    /\ ui = UiInit
    /\ friendly = NoFriendly
    /\ fetched = NoFetch
    /\ home = HomeInit
    /\ \E body \in ReaderBodies :
           reader = [NoReader EXCEPT !.sent = body, !.wire = Wire(body)]

\* One turn of the while loop: reader.read() delivers the next k bytes.
ReaderRead(k) ==
    /\ ~reader.done
    /\ reader.pos + k <= Len(reader.wire)
    /\ LET value   == SubSeq(reader.wire, reader.pos + 1, reader.pos + k)
           decoded == DecodeStream(reader.pending, value)
           lines   == Split(reader.buffer \o decoded.text)
           whole   == SubSeq(lines, 1, Len(lines) - 1)
       IN  reader' =
               [reader EXCEPT
                   !.pos = @ + k,
                   !.pending = decoded.pending,
                   !.buffer = Popped(lines),
                   !.content = @ \o Concat([i \in 1..Len(whole) |->
                                                LineContent(whole[i])]),
                   !.split = @ \/ Popped(lines) # <<>> \/ decoded.pending # <<>>]
    /\ UNCHANGED <<pc, req, turnVars, chats, messages, apiKey, imageUrl, ui,
                   friendly, fetched, home>>

\* reader.read() reports done: the loop is left.
ReaderDone ==
    /\ ~reader.done
    /\ reader.pos = Len(reader.wire)
    /\ reader' = [reader EXCEPT !.done = TRUE]
    /\ UNCHANGED <<pc, req, turnVars, chats, messages, apiKey, imageUrl, ui,
                   friendly, fetched, home>>

NextReader ==
    \/ \E k \in 1..Len(reader.wire) : ReaderRead(k)
    \/ ReaderDone

SpecReader == InitReader /\ [][NextReader]_vars

\* The content of the content events of a body, in order.
ContentSent(events) ==
    Concat([i \in 1..Len(events) |->
                IF events[i].key = "content" THEN events[i].content ELSE <<>>])

\* C26: however the bytes of the body are cut into reads, what the loop has
\* appended is a prefix of the content sent, and once the body has ended it
\* is the content of all content events in order, each once.
C26_ReaderIndependentOfSplits ==
    /\ IsPrefix(reader.content, ContentSent(reader.sent))
    /\ reader.done => reader.content = ContentSent(reader.sent)

\* A body of two content events and the end signal was read to its end, a
\* read having ended inside a line, and the two contents were appended.
C26_Witness ==
    /\ reader.done /\ reader.split
    /\ Len(reader.sent) = 3
    /\ reader.content = <<"a", "\n", "é", "\"", "\\">>

(***************************************************************************)
(* The Home page with the chat service and the chat history                *)
(* (task_007.txt 77-176, task_010.txt 123-184), against the chat route.    *)
(***************************************************************************)
\* A Message as the page lists it.
HomeMessage(chatId, role, content) ==
    [chat_id |-> chatId, role |-> role, content |-> content]

\* The body sendChatMessage posts: { messages: [{ role: 'user', content }],
\* chatId } with chatId undefined when no chat is current.
HomeRequest(chatId) ==
    [NoRequest EXCEPT !.relay = "chat", !.messagesKind = "array",
                      !.messages = <<UserMsg>>, !.chatId = chatId]

\* abortControllerRef.current.abort(), if there is a controller: its signal
\* was given to no fetch and to no reader.
HomeAbort(h) == [h EXCEPT !.abort = IF @ = "null" THEN @ ELSE "aborted"]

\* catch (toast) and finally of handleSendMessage, or finally alone.
HomeFinally(h) ==
    [h EXCEPT !.isLoading = FALSE, !.abort = "null", !.phase = "done"]

\* The view is left while the turn of the page is awaiting its answer or
\* reading its stream.
HomeLeaves(h) ==
    IF h.phase \in {"sending", "reading"} /\ h.left = "no" THEN h.phase ELSE h.left

\* handleSendMessage up to the fetch of sendChatMessage; the input is
\* disabled while loading.
HomeSend(t) ==
    /\ home.phase = "idle"
    /\ ~home.isLoading
    /\ \A u \in Turns : pc[u] = "idle"
    /\ ui.phase = "idle"
    /\ home' = [home EXCEPT
                   !.isLoading = TRUE,
                   !.messages = Append(@, HomeMessage(home.currentChatId, "user",
                                                      Hello)),
                   !.abort = "armed",
                   !.turn = t,
                   !.phase = "sending",
                   !.closure = home.currentChatId]
    /\ req' = [req EXCEPT ![t] = HomeRequest(home.currentChatId)]
    /\ pc' = [pc EXCEPT ![t] = "parse"]
    /\ UNCHANGED <<turnVars, chats, messages, apiKey, imageUrl, ui, friendly,
                   fetched, reader>>

\* sendChatMessage returns or throws: the chat id of the answer becomes the
\* current one if none was current when the message was sent, and the
\* placeholder is appended.
HomeResponse(t) ==
    /\ home.turn = t
    /\ home.phase = "sending"
    /\ response[t].status # 0
    /\ home' =
           IF ~Ok(response[t]) \/ response[t].chatIdHeader = 0
           THEN HomeFinally(home)
           ELSE [home EXCEPT
                    !.currentChatId =
                        IF home.closure = 0 THEN response[t].chatIdHeader ELSE @,
                    !.messages = Append(@, HomeMessage(response[t].chatIdHeader,
                                                       "assistant", <<>>)),
                    !.phase = "reading"]
    /\ UNCHANGED <<pc, req, turnVars, chats, messages, apiKey, imageUrl, ui,
                   friendly, fetched, reader>>

\* One chunk is read and added to the last message of the list; with an
\* empty list the updater throws and the page is torn down.
HomeRead(t) ==
    /\ home.turn = t
    /\ home.phase = "reading"
    /\ home.read < Len(stream[t].events)
    /\ LET text == stream[t].events[home.read + 1].content
           last == Len(home.messages)
       IN  home' =
               IF last = 0
               THEN [home EXCEPT !.read = @ + 1, !.phase = "crashed"]
               ELSE [home EXCEPT !.read = @ + 1,
                                 !.messages[last].content = @ \o text]
    /\ UNCHANGED <<pc, req, turnVars, chats, messages, apiKey, imageUrl, ui,
                   friendly, fetched, reader>>

\* reader.read() reports done, or rejects and the catch shows a toast;
\* finally, loading ends.
HomeStreamEnd(t) ==
    /\ home.turn = t
    /\ home.phase = "reading"
    /\ \/ stream[t].state = "closed" /\ home.read = Len(stream[t].events)
       \/ stream[t].state = "errored"
    /\ home' = HomeFinally(home)
    /\ UNCHANGED <<pc, req, turnVars, chats, messages, apiKey, imageUrl, ui,
                   friendly, fetched, reader>>

\* How often the user selects a chat or starts a new one.
MaxLeaves == 2

\* handleSelectChat up to the fetch of the messages.
HomeSelectChat(chatId) ==
    /\ home.phase # "crashed"
    /\ home.leaves < MaxLeaves
    /\ home.selecting = 0
    /\ ~home.creating
    /\ chatId \in ChatIds
    /\ home' = [HomeAbort(home) EXCEPT !.isLoading = TRUE,
                                       !.currentChatId = chatId,
                                       !.selecting = chatId,
                                       !.leaves = @ + 1,
                                       !.left = HomeLeaves(home)]
    /\ UNCHANGED <<pc, req, turnVars, chats, messages, apiKey, imageUrl, ui,
                   friendly, fetched, reader>>

\* fetchChatMessages returns and the history is shown, or it throws and a
\* toast is shown; finally, loading ends.
HomeSelected ==
    /\ home.phase # "crashed"
    /\ home.selecting # 0
    /\ \E outcome \in {"ok", "error"} :
           home' = [home EXCEPT
                       !.messages =
                           IF outcome = "ok"
                           THEN LET sel == OrderByCreatedAt(Eq(messages,
                                                               home.selecting))
                                IN  [i \in 1..Len(sel) |->
                                        HomeMessage(sel[i].chat_id, sel[i].role,
                                                    sel[i].content)]
                           ELSE @,
                       !.isLoading = FALSE,
                       !.selecting = 0]
    /\ UNCHANGED <<pc, req, turnVars, chats, messages, apiKey, imageUrl, ui,
                   friendly, fetched, reader>>

\* handleNewChat up to createNewChat; the button is disabled while loading.
HomeNewChat ==
    /\ home.phase # "crashed"
    /\ home.leaves < MaxLeaves
    /\ ~home.isLoading
    /\ home.selecting = 0
    /\ ~home.creating
    /\ home' = [HomeAbort(home) EXCEPT !.messages = <<>>,
                                       !.currentChatId = 0,
                                       !.isLoading = FALSE,
                                       !.creating = TRUE,
                                       !.leaves = @ + 1,
                                       !.left = HomeLeaves(home)]
    /\ UNCHANGED <<pc, req, turnVars, chats, messages, apiKey, imageUrl, ui,
                   friendly, fetched, reader>>

\* createNewChat returns the chat it inserted, which becomes the current
\* one, or it throws and a toast is shown.
HomeNewChatCreated ==
    /\ home.phase # "crashed"
    /\ home.creating
    /\ \E outcome \in {"ok", "error"} :
           IF outcome = "ok"
           THEN /\ chats' = chats \cup {ChatRow(0)}
                /\ home' = [home EXCEPT !.currentChatId = NewChatId,
                                        !.creating = FALSE]
           ELSE /\ home' = [home EXCEPT !.creating = FALSE]
                /\ UNCHANGED chats
    /\ UNCHANGED <<pc, req, turnVars, messages, apiKey, imageUrl, ui, friendly,
                   fetched, reader>>

\* A store with the chat of an earlier conversation in it.
InitHome ==
    /\ Init
    /\ chats = {PriorChat}
    /\ apiKey

NextHome ==
    \/ \E t \in Turns :
            \/ HomeSend(t)
            \/ ChatParse(t)
            \/ ChatCreateChat(t)
            \/ ChatStoreUser(t)
            \/ ChatCreateStream(t)
            \/ ChatForward(t)
            \/ ChatUpstreamError(t)
            \/ ChatUpstreamEnd(t)
            \/ ChatAssistantStored(t)
            \/ HomeResponse(t)
            \/ HomeRead(t)
            \/ HomeStreamEnd(t)
    \/ \E chatId \in FetchIds : HomeSelectChat(chatId)
    \/ HomeSelected
    \/ HomeNewChat
    \/ HomeNewChatCreated

SpecHome == InitHome /\ [][NextHome]_vars

\* The turn of the page takes a step: it reads a chunk or it ends.
HomeTurnStep == home'.read # home.read \/ home'.phase # home.phase

\* C28: once the user has started a new chat or selected a chat while the
\* turn was streaming, no step of that turn changes the list of messages,
\* isLoading or currentChatId.
C28_LeavingCancelsTheTurn ==
    [][(home.left = "reading" /\ home.phase = "reading" /\ HomeTurnStep)
           => /\ home'.messages = home.messages
              /\ home'.isLoading = home.isLoading
              /\ home'.currentChatId = home.currentChatId]_vars

====
